---- MODULE Spec2Model ----
(***************************************************************************)
(* Promotion lifecycle of coco-promotions: promotion creation              *)
(* (PromotionController), the refund sweep and early stop (RefundService)  *)
(* and the budget-exhaustion sweep (SchedulerService), over the relational *)
(* store.  Every `await query(...)` of the source is one atomic store      *)
(* operation; handlers interleave at those points.  Tables are bags of     *)
(* rows; promotions is keyed by its primary key.  Time is counted in days. *)
(***************************************************************************)
EXTENDS Bags, FiniteSets, Integers, Sequences, TLC

VARIABLES db, now, issued, reqs, runs, errors, call, scheduler

vars == <<db, now, issued, reqs, runs, errors, call, scheduler>>

(***************************************************************************)
(* Bounds of the model.                                                    *)
(***************************************************************************)
MaxTime == 7
MaxPromotions == 2
MaxExpenses == 2
MaxRuns == 2
MaxRequests == 1
MaxErrors == 2
MaxCandidates == 2
MaxTiers == 2
MaxTargets == 5
MaxRanked == 100
MaxCohortUsers == 4
MaxDuration == 3
MaxTimers == 3
MaxSweeps == 3
MaxResets == 2
MaxRows == 2

(***************************************************************************)
(* Program constants.                                                      *)
(***************************************************************************)
MaxDurationDays == 7
RefundDays == 7
QueueDays == 7
ExhaustPct == 98
CandidateLimit == 2000
TargetLimit == 1000
QualityThreshold == 40000
FrequencySample == 100
DailyLimit == 3
AuthorLimit == 2

(***************************************************************************)
(* Inputs: the posts and users tables are read-only for this engine.       *)
(***************************************************************************)
Posts ==
  { [id |-> "post1", author_id |-> "a1", likes |-> 12, replies |-> 3,
     shares |-> 1, text_length |-> 120, has_images |-> FALSE,
     target_wealth_levels |-> {}, location |-> {}] }

\* the users table joined with user_profiles, in heap order
Users ==
  << [user_id |-> "u1", wealth_level |-> "fish", country_code |-> {"CN"},
      region |-> {"SH"}, followers_count |-> 1500, recent_activity |-> 6,
      avg_engagement |-> 40, created_at |-> -10],
     [user_id |-> "u2", wealth_level |-> "crab", country_code |-> {"US"},
      region |-> {}, followers_count |-> 20, recent_activity |-> 1,
      avg_engagement |-> 0, created_at |-> -10] >>

Costs == {49}

Requests ==
  { [authorId |-> "a1", postId |-> "post1", total |-> 100, duration |-> 30,
     targeting |-> [wealthLevels |-> {"whale"}, preferredRegions |-> {}]],
    [authorId |-> "a2", postId |-> "post1", total |-> 50, duration |-> 1,
     targeting |-> [wealthLevels |-> {"whale", "shark"},
                    preferredRegions |-> {"CN"}]],
    [authorId |-> "a1", postId |-> "post1", total |-> 100, duration |-> 7,
     targeting |-> [wealthLevels |-> {"fish", "crab"}, preferredRegions |-> {}]],
    [authorId |-> "a2", postId |-> "post0", total |-> 100, duration |-> 7,
     targeting |-> [wealthLevels |-> {"fish"}, preferredRegions |-> {}]] }

(***************************************************************************)
(* Helpers.                                                                *)
(***************************************************************************)
Max(a, b) == IF a >= b THEN a ELSE b
Min(a, b) == IF a <= b THEN a ELSE b

RECURSIVE SumSeq(_)
SumSeq(q) == IF q = <<>> THEN 0 ELSE Head(q) + SumSeq(Tail(q))

CeilDiv(a, b) == (a + b - 1) \div b

Row(r) == SetToBag({r})

RECURSIVE SumCost(_, _)
SumCost(B, S) ==
  IF S = {} THEN 0
  ELSE LET r == CHOOSE x \in S : TRUE
       IN  r.cost * CopiesIn(r, B) + SumCost(B, S \ {r})

RECURSIVE CountRows(_, _)
CountRows(B, S) ==
  IF S = {} THEN 0
  ELSE LET r == CHOOSE x \in S : TRUE
       IN  CopiesIn(r, B) + CountRows(B, S \ {r})

\* COALESCE(SUM(pe.cost), 0) over the expenses of one promotion
TotalSpent(d, pid) ==
  SumCost(d.promotion_expenses,
          {r \in BagToSet(d.promotion_expenses) : r.promotion_id = pid})

\* the promotion_refund ledger rows that reference one promotion
RefundCredits(d, pid) ==
  {r \in BagToSet(d.points_ledger) :
      r.reference_type = "promotion_refund" /\ r.reference_id = pid}

NumRefundCredits(d, pid) == CountRows(d.points_ledger, RefundCredits(d, pid))

TasksOf(d, pid) == {r \in BagToSet(d.refund_tasks) : r.promotion_id = pid}

NumTasks(d, pid) == CountRows(d.refund_tasks, TasksOf(d, pid))

QueueOf(d, pid) == {r \in BagToSet(d.promotion_queue) : r.promotion_id = pid}

(***************************************************************************)
(* RefundService: the store operations of the refund path.                 *)
(***************************************************************************)
\* SELECT ... FROM refund_tasks rt JOIN promotions p LEFT JOIN expenses pe
\* WHERE rt.status = 'scheduled' AND rt.refund_date <= NOW() GROUP BY ...
ExpiredPromotions(d, t) ==
  LET due == {rt \in BagToSet(d.refund_tasks) :
                 /\ rt.status = "scheduled"
                 /\ rt.refund_date <= t
                 /\ rt.promotion_id \in DOMAIN d.promotions}
      grp(rt) == {x \in due : /\ x.promotion_id = rt.promotion_id
                              /\ x.original_budget = rt.original_budget}
  IN  { [promotion_id |-> rt.promotion_id,
         original_budget |-> rt.original_budget,
         author_id |-> d.promotions[rt.promotion_id].author_id,
         post_id |-> d.promotions[rt.promotion_id].post_id,
         total_spent |-> CountRows(d.refund_tasks, grp(rt))
                           * TotalSpent(d, rt.promotion_id)] : rt \in due }

\* mutant: the refund is not clamped at 0
RefundAmountOf_Unclamped(promotion) ==
  promotion.original_budget - promotion.total_spent

\* const refundAmount = Math.max(0, originalBudget - totalSpent)
RefundAmountOf(promotion) ==
  Max(0, promotion.original_budget - promotion.total_spent)

executeRefund(d, authorId, amount, promotionId) ==
  [d EXCEPT !.points_ledger =
      @ (+) Row([user_id |-> authorId, amount |-> amount, type |-> "earn",
                 reference_type |-> "promotion_refund",
                 reference_id |-> promotionId])]

\* UPDATE promotions SET status = 'completed' WHERE id = $1
CompletePromotion(d, pid) ==
  [d EXCEPT !.promotions =
      [i \in DOMAIN @ |-> IF i = pid THEN [@[i] EXCEPT !.status = "completed"]
                          ELSE @[i]]]

\* mutant: the UPDATE stores the amount but leaves the task 'scheduled'
CompleteRefundTask_KeepsScheduled(d, pid, amount) ==
  LET upd(rt) == IF rt.promotion_id = pid
                 THEN [rt EXCEPT !.refund_amount = {amount}]
                 ELSE rt
  IN  [d EXCEPT !.refund_tasks = BagOfAll(upd, @)]

\* UPDATE refund_tasks SET status = 'completed', refund_amount = $1
\* WHERE promotion_id = $2
CompleteRefundTask(d, pid, amount) ==
  LET upd(rt) == IF rt.promotion_id = pid
                 THEN [rt EXCEPT !.status = "completed",
                                 !.refund_amount = {amount}]
                 ELSE rt
  IN  [d EXCEPT !.refund_tasks = BagOfAll(upd, @)]

RefundCreditStep(d, promotion) ==
  IF RefundAmountOf(promotion) > 0
  THEN executeRefund(d, promotion.author_id, RefundAmountOf(promotion),
                     promotion.promotion_id)
  ELSE d

\* processRefund run to its end without interruption
processRefund(d, promotion) ==
  CompleteRefundTask(
     CompletePromotion(RefundCreditStep(d, promotion), promotion.promotion_id),
     promotion.promotion_id, RefundAmountOf(promotion))

RECURSIVE RefundAll(_, _)
RefundAll(d, batch) ==
  IF batch = {} THEN d
  ELSE LET promotion == CHOOSE x \in batch : TRUE
       IN  RefundAll(processRefund(d, promotion), batch \ {promotion})

\* one whole refund sweep, no store error and nothing interleaved
processScheduledRefunds(d, t) == RefundAll(d, ExpiredPromotions(d, t))

(***************************************************************************)
(* SchedulerService.checkBudgetExhaustion and RefundService early stop.    *)
(***************************************************************************)
\* mutant: HAVING ... > p.budget_total * 0.98
ExhaustedPromotions_Strict(d, t) ==
  { [id |-> i, author_id |-> d.promotions[i].author_id,
     budget_total |-> d.promotions[i].budget_total,
     total_spent |-> TotalSpent(d, i)] :
    i \in {j \in DOMAIN d.promotions :
             /\ d.promotions[j].status = "active"
             /\ d.promotions[j].expires_at > t
             /\ TotalSpent(d, j) * 100 > d.promotions[j].budget_total * ExhaustPct} }

\* mutant: the query without AND p.expires_at > NOW()
ExhaustedPromotions_Expired(d, t) ==
  { [id |-> i, author_id |-> d.promotions[i].author_id,
     budget_total |-> d.promotions[i].budget_total,
     total_spent |-> TotalSpent(d, i)] :
    i \in {j \in DOMAIN d.promotions :
             /\ d.promotions[j].status = "active"
             /\ TotalSpent(d, j) * 100 >= d.promotions[j].budget_total * ExhaustPct} }

\* SELECT ... WHERE p.status = 'active' AND p.expires_at > NOW()
\* HAVING COALESCE(SUM(pe.cost), 0) >= p.budget_total * 0.98
ExhaustedPromotions(d, t) ==
  { [id |-> i, author_id |-> d.promotions[i].author_id,
     budget_total |-> d.promotions[i].budget_total,
     total_spent |-> TotalSpent(d, i)] :
    i \in {j \in DOMAIN d.promotions :
             /\ d.promotions[j].status = "active"
             /\ d.promotions[j].expires_at > t
             /\ TotalSpent(d, j) * 100 >= d.promotions[j].budget_total * ExhaustPct} }

\* UPDATE promotion_queue SET status = 'cancelled', cancellation_reason = $1
\* WHERE promotion_id = $2 AND status = 'scheduled'
CancelScheduled(d, pid, reason) ==
  LET upd(q) == IF q.promotion_id = pid /\ q.status = "scheduled"
                THEN [q EXCEPT !.status = "cancelled",
                               !.cancellation_reason = {reason}]
                ELSE q
  IN  [d EXCEPT !.promotion_queue = BagOfAll(upd, @)]

\* UPDATE promotions SET status = 'stopped_early' WHERE id = $1
MarkStoppedEarly(d, pid) ==
  [d EXCEPT !.promotions =
      [i \in DOMAIN @ |-> IF i = pid THEN [@[i] EXCEPT !.status = "stopped_early"]
                          ELSE @[i]]]

checkRemainingBudget(d, pid) ==
  LET originalBudget == d.promotions[pid].budget_total
      totalSpent == TotalSpent(d, pid)
      remainingBudget == Max(0, originalBudget - totalSpent)
  IN  [originalBudget |-> originalBudget, totalSpent |-> totalSpent,
       remainingBudget |-> remainingBudget,
       isExhausted |-> (remainingBudget * 100 <= 1)]

\* SELECT author_id FROM promotions WHERE id = $1, then executeRefund
EarlyRefundStep(d, pid, remainingBudget) ==
  IF remainingBudget > 0 /\ pid \in DOMAIN d.promotions
  THEN executeRefund(d, d.promotions[pid].author_id, remainingBudget, pid)
  ELSE d

\* stopPromotionEarly run to its end without interruption
stopPromotionEarly(d, pid, reason) ==
  LET d2 == MarkStoppedEarly(CancelScheduled(d, pid, reason), pid)
  IN  EarlyRefundStep(d2, pid, checkRemainingBudget(d2, pid).remainingBudget)

RECURSIVE StopAll(_, _)
StopAll(d, batch) ==
  IF batch = {} THEN d
  ELSE LET promotion == CHOOSE x \in batch : TRUE
       IN  StopAll(stopPromotionEarly(d, promotion.id, "budget_exhausted"),
                   batch \ {promotion})

\* one whole exhaustion sweep, no store error and nothing interleaved
checkBudgetExhaustion(d, t) == StopAll(d, ExhaustedPromotions(d, t))

(***************************************************************************)
(* PromotionController.createPromotion.                                    *)
(***************************************************************************)
\* a property the object does not have reads as undefined ({}), else {value}
Field(r, f) == IF f \in DOMAIN r THEN {r[f]} ELSE {}

WealthLevels ==
  {"foam", "plankton", "crab", "fish", "turtle", "dolphin", "shark", "whale",
   "giant_whale"}

\* the SELECT of getContentInfo: {} when no row matches, else {the post row}
getContentInfo(postId) == {p \in Posts : p.id = postId}

\* ORDER BY recent_activity DESC, avg_engagement DESC
QueryBefore(a, b) ==
  \/ a.recent_activity > b.recent_activity
  \/ a.recent_activity = b.recent_activity /\ a.avg_engagement > b.avg_engagement

RECURSIVE OrderRows(_)
OrderRows(rows) ==
  IF rows = <<>> THEN <<>>
  ELSE LET rest == OrderRows(Tail(rows))
           x == Head(rows)
           first == {i \in 1..Len(rest) : QueryBefore(rest[i], x)}
           k == Cardinality({i \in 1..Len(rest) : \A j \in 1..i : j \in first})
       IN  SubSeq(rest, 1, k) \o <<x>> \o SubSeq(rest, k + 1, Len(rest))

\* the SELECT of queryCandidatesInFramework over the users table at time t
queryCandidatesInFramework(users, targeting, t) ==
  LET keep(u) == /\ u.wealth_level \in targeting.wealthLevels
                 /\ u.created_at <= t - 1
                 /\ targeting.preferredRegions # {}
                      => \E c \in u.country_code : c \in targeting.preferredRegions
      rows == OrderRows(SelectSeq(users, keep))
  IN  SubSeq(rows, 1, Min(Len(rows), CandidateLimit))

(***************************************************************************)
(* TargetingEngineService scoring.  Fractional quantities are carried in   *)
(* thousandths (1.0 is 1000, a relevance of 100 is 100000); a division     *)
(* keeps the whole thousandths.                                            *)
(***************************************************************************)
getUserSophistication(wealthLevel) ==
  CASE wealthLevel = "foam" -> 10 [] wealthLevel = "plankton" -> 20
    [] wealthLevel = "crab" -> 30 [] wealthLevel = "fish" -> 40
    [] wealthLevel = "turtle" -> 50 [] wealthLevel = "dolphin" -> 70
    [] wealthLevel = "shark" -> 85 [] wealthLevel = "whale" -> 95
    [] wealthLevel = "giant_whale" -> 100

\* valueMap[wealthLevel] in tenths; a key the map lacks reads undefined
getWealthLevelValue(wealthLevel) ==
  IF wealthLevel = {} THEN {}
  ELSE LET w == CHOOSE x \in wealthLevel : TRUE
       IN  CASE w = "foam" -> {5} [] w = "plankton" -> {10}
             [] w = "crab" -> {15} [] w = "fish" -> {20}
             [] w = "turtle" -> {30} [] w = "dolphin" -> {50}
             [] w = "shark" -> {80} [] w = "whale" -> {120}
             [] w = "giant_whale" -> {200} [] OTHER -> {}

\* quality in points 0..100
assessContentQuality(content) ==
  LET engagement == content.likes + content.replies * 2 + content.shares * 3
  IN  Min(100, 30 + Min(40, engagement * 2)
                  + (IF content.text_length > 100 THEN 20 ELSE 10)
                  + (IF content.has_images THEN 10 ELSE 0))

assessContentComplexity(content) ==
  LET likes == IF content.likes = 0 THEN 1 ELSE content.likes
      interactionDepth == (content.replies * 1000) \div Max(1, likes)
  IN  Min(100000, content.text_length * 100 + interactionDepth * 20)

calculateWealthMatch(content, user) ==
  IF content.target_wealth_levels # {}
  THEN IF \E levels \in content.target_wealth_levels : user.wealth_level \in levels
       THEN 1000 ELSE 300
  ELSE Min(1000, assessContentComplexity(content)
                   \div getUserSophistication(user.wealth_level))

calculateGeoRelevance(content, user) ==
  IF content.location = {} \/ user.country_code = {} THEN 500
  ELSE LET loc == CHOOSE l \in content.location : TRUE
       IN  IF {loc.country} = user.country_code
           THEN IF loc.region = user.region THEN 1000 ELSE 800
           ELSE 200

calculateActivityMatch(content, user) ==
  LET userActivity == user.recent_activity
      contentEngagement == content.likes + content.replies
  IN  IF userActivity > 10 /\ contentEngagement > 20 THEN 1000
      ELSE IF userActivity > 5 /\ contentEngagement > 10 THEN 800
      ELSE IF userActivity > 2 /\ contentEngagement > 5 THEN 600
      ELSE 400

calculateRelevanceScore(content, user) ==
  LET score == 50000 + calculateWealthMatch(content, user) * 25
                     + calculateGeoRelevance(content, user) * 15
                     + calculateActivityMatch(content, user) * 10
  IN  Min(100000, Max(0, score))

predictEngagementProbability(content, user) ==
  LET activityFactor == Min(1000, user.recent_activity * 100)
      engagementFactor == Min(1000, user.avg_engagement * 20)
      qualityFactor == assessContentQuality(content) * 10
  IN  Min(900, (300 * (1000 + activityFactor + engagementFactor + qualityFactor))
                 \div 1000)

\* the multiplier without its upper limit
calculateInfluenceMultiplier_Unlimited(user) ==
  1000 + (user.followers_count * Min(1000, user.avg_engagement * 10)) \div 1000

calculateInfluenceMultiplier(user) ==
  LET influenceScore == (user.followers_count * Min(1000, user.avg_engagement * 10))
                          \div 1000
  IN  1000 + Min(4000, influenceScore)

\* relevanceScore * engagementProbability * influenceMultiplier *
\* getWealthLevelValue(user.wealthLevel), in ten-thousandths; NaN ({}) when a
\* factor
\* is undefined
calculateUserValue(user) ==
  LET wealth == getWealthLevelValue(Field(user, "wealthLevel"))
  IN  {(((((user.relevanceScore * user.engagementProbability) \div 1000)
            * user.influenceMultiplier) \div 1000) * w) : w \in wealth}

\* the comparator of the sort, b's value minus a's; Array.prototype.sort
\* reads a NaN result as 0
SortCompare(a, b) ==
  LET va == calculateUserValue(a)
      vb == calculateUserValue(b)
  IN  IF va = {} \/ vb = {} THEN 0
      ELSE (CHOOSE x \in vb : TRUE) - (CHOOSE x \in va : TRUE)

\* Array.prototype.sort is stable: an element moves in front of the ones the
\* comparator puts after it
RECURSIVE SortInsert(_, _)
SortInsert(sorted, x) ==
  IF sorted = <<>> THEN <<x>>
  ELSE LET last == sorted[Len(sorted)]
       IN  IF SortCompare(last, x) > 0
           THEN SortInsert(SubSeq(sorted, 1, Len(sorted) - 1), x) \o <<last>>
           ELSE sorted \o <<x>>

RECURSIVE SortByValue(_)
SortByValue(s) ==
  IF s = <<>> THEN <<>>
  ELSE SortInsert(SortByValue(SubSeq(s, 1, Len(s) - 1)), s[Len(s)])

\* { ...user, relevanceScore, engagementProbability, influenceMultiplier }
ScoreCandidate(content, user) ==
  [user_id |-> user.user_id, wealth_level |-> user.wealth_level,
   country_code |-> user.country_code, region |-> user.region,
   followers_count |-> user.followers_count,
   recent_activity |-> user.recent_activity,
   avg_engagement |-> user.avg_engagement,
   relevanceScore |-> calculateRelevanceScore(content, user),
   engagementProbability |-> predictEngagementProbability(content, user),
   influenceMultiplier |-> calculateInfluenceMultiplier(user)]

\* the scored candidates, sorted by calculateUserValue, first TargetLimit
RankCandidates(content, candidates) ==
  LET scoredCandidates ==
        [i \in 1..Len(candidates) |-> ScoreCandidate(content, candidates[i])]
      sorted == SortByValue(scoredCandidates)
  IN  SubSeq(sorted, 1, Min(Len(sorted), TargetLimit))

\* the candidate query without its WHERE clause
findTargetsWithinFramework_NoFilter(users, content, targeting, t) ==
  RankCandidates(content, OrderRows(users))

findTargetsWithinFramework(users, content, targeting, t) ==
  RankCandidates(content, queryCandidatesInFramework(users, targeting, t))

\* the targeting part of the plan of optimizePromotionWithinFramework
RECURSIVE Pow2Floor(_)
Pow2Floor(k) == IF k < 2 THEN 1 ELSE 2 * Pow2Floor(k \div 2)

\* Math.floor(n * 0.7) in IEEE-754 double arithmetic.  The double 0.7 is
\* (7 * 2^53 - 4) / (10 * 2^53), so the exact product is
\* (7n - 4n * 2^-53) / 10.  When 7n/10 is not an integer the product lies
\* strictly between two integers and its floor is that of 7n/10.  When
\* 7n/10 = k is an integer (n = 10j) the product is k - 4j * 2^-53; it rounds
\* to k when 4j * 2^-53 is at most half the spacing 2^(p-52) of the doubles
\* below k (2^p <= k < 2^(p+1); the tie goes to the even significand of k),
\* and to the double below k otherwise, whose floor is k - 1.
FloorOfSeventyPercent(n) ==
  LET k == (n * 7) \div 10
      j == n \div 10
  IN  IF n % 10 = 0 /\ 4 * j > Pow2Floor(k) THEN k - 1 ELSE k

TargetingPlan(targetUsers) ==
  LET n == Len(targetUsers)
      cut == FloorOfSeventyPercent(n)
  IN  [primaryTargets |-> SubSeq(targetUsers, 1, cut),
       secondaryTargets |-> SubSeq(targetUsers, cut + 1, n),
       totalReach |-> n]

\* targetUsers.slice(day * usersPerDay, (day + 1) * usersPerDay)
DayUsers(targetUsers, day) ==
  LET usersPerDay == CeilDiv(Len(targetUsers), QueueDays)
  IN  SubSeq(targetUsers, Min(day * usersPerDay, Len(targetUsers)) + 1,
             Min((day + 1) * usersPerDay, Len(targetUsers)))

RECURSIVE QueueOrderFrom(_, _)
QueueOrderFrom(targetUsers, day) ==
  IF day >= QueueDays THEN <<>>
  ELSE DayUsers(targetUsers, day) \o QueueOrderFrom(targetUsers, day + 1)

\* the users createDeliveryQueue inserts, in insertion order
createDeliveryQueue(targetUsers) == QueueOrderFrom(targetUsers, 0)

generatePromotionId(n) == n + 1

recordPromotionRequest(d, promotionId, request, t) ==
  [d EXCEPT !.promotions =
      [i \in DOMAIN @ \cup {promotionId} |->
         IF i = promotionId
         THEN [post_id |-> request.postId, author_id |-> request.authorId,
               budget_total |-> request.total,
               duration_days |-> request.duration,
               target_wealth_levels |-> request.targeting.wealthLevels,
               preferred_regions |-> request.targeting.preferredRegions,
               status |-> "active", created_at |-> t,
               expires_at |-> t + request.duration]
         ELSE @[i]]]

scheduleRefundTask(d, promotionId, totalBudget, maxDays, t) ==
  [d EXCEPT !.refund_tasks =
      @ (+) Row([promotion_id |-> promotionId, original_budget |-> totalBudget,
                 refund_date |-> t + maxDays, refund_amount |-> {},
                 status |-> "scheduled"])]

\* createPromotion up to createDeliveryQueue: the INSERT of
\* recordPromotionRequest, then the reads of initiateDelivery (posts and users
\* are not written by this engine); with a missing post protectUserExperience
\* throws on the null content and the request ends with a 400
CreatePromotion ==
  \E req \in Requests :
    LET requestData == [req EXCEPT !.duration = Min(@, MaxDurationDays)]
        promotionId == generatePromotionId(issued)
        content == getContentInfo(requestData.postId)
        targetUsers ==
          IF content = {} THEN <<>>
          ELSE findTargetsWithinFramework(Users, CHOOSE c \in content : TRUE,
                                          requestData.targeting, now)
        pending == createDeliveryQueue(targetUsers)
    IN  /\ issued < MaxPromotions
        /\ Cardinality(reqs) < MaxRequests
        /\ issued' = issued + 1
        /\ db' = recordPromotionRequest(db, promotionId, requestData, now)
        /\ reqs' = IF content = {} THEN reqs
                   ELSE reqs \cup {[promotionId |-> promotionId,
                                    request |-> requestData,
                                    pc |-> IF pending = <<>> THEN "schedule" ELSE "queue",
                                    pending |-> pending]}
        /\ UNCHANGED <<now, runs, errors, call, scheduler>>

\* mutant: the INSERT takes the user_id column of the row
QueueUserId_Column(user) ==
  Field(user, "user_id")

\* the user_id parameter of the INSERT of createDeliveryQueue: user.userId
QueueUserId(user) ==
  Field(user, "userId")

\* one INSERT INTO promotion_queue of createDeliveryQueue, with user.userId
\* as user_id; the column is NOT NULL, so an undefined userId makes the INSERT
\* fail and createPromotion answer 400
Enqueue ==
  \E q \in reqs :
    LET userId == QueueUserId(Head(q.pending))
    IN  /\ q.pc = "queue"
        /\ IF userId = {}
           THEN /\ reqs' = reqs \ {q}
                /\ UNCHANGED db
           ELSE /\ db' = [db EXCEPT !.promotion_queue =
                            @ (+) Row([promotion_id |-> q.promotionId,
                                       user_id |-> CHOOSE u \in userId : TRUE,
                                       status |-> "scheduled",
                                       cancellation_reason |-> {}])]
                /\ reqs' = (reqs \ {q}) \cup
                       {[q EXCEPT !.pending = Tail(@),
                                  !.pc = IF Tail(q.pending) = <<>>
                                         THEN "schedule" ELSE "queue"]}
        /\ UNCHANGED <<now, issued, runs, errors, call, scheduler>>

\* scheduleRefundTask(promotionId, request.budget.total, 7); the request ends
ScheduleRefundTask ==
  \E q \in reqs :
    /\ q.pc = "schedule"
    /\ db' = scheduleRefundTask(db, q.promotionId, q.request.total, RefundDays, now)
    /\ reqs' = reqs \ {q}
    /\ UNCHANGED <<now, issued, runs, errors, call, scheduler>>

\* a query of the request throws: createPromotion answers 400 (errors
\* counts the store errors so far)
RequestStoreError ==
  \E q \in reqs :
    /\ errors < MaxErrors
    /\ errors' = errors + 1
    /\ reqs' = reqs \ {q}
    /\ UNCHANGED <<db, now, issued, runs, call, scheduler>>

(***************************************************************************)
(* The expense ledger is appended by the event-accounting collaborator.    *)
(***************************************************************************)
recordPromotionExpense ==
  \E pid \in DOMAIN db.promotions, cost \in Costs :
    /\ BagCardinality(db.promotion_expenses) < MaxExpenses
    /\ db' = [db EXCEPT !.promotion_expenses =
                @ (+) Row([promotion_id |-> pid, cost |-> cost])]
    /\ UNCHANGED <<now, issued, reqs, runs, errors, call, scheduler>>

\* the timestamps NOW() is compared with by some query
Deadlines(d) ==
  {d.promotions[i].expires_at : i \in DOMAIN d.promotions}
    \cup {rt.refund_date : rt \in BagToSet(d.refund_tasks)}

\* time passes; the clock is observed only relative to the stored deadlines,
\* so it advances from one of them to the next
Tick ==
  /\ \E t \in Deadlines(db) :
       /\ t > now /\ t <= MaxTime
       /\ \A u \in Deadlines(db) : u > now => t <= u
       /\ now' = t
  /\ UNCHANGED <<db, issued, reqs, runs, errors, call, scheduler>>

(***************************************************************************)
(* Sweep runs.  A run holds its snapshot (batch: the rows not yet started, *)
(* cur: the row in progress) and the position inside the current item.     *)
(***************************************************************************)
Replace(r, r2) == (runs (-) Row(r)) (+) Row(r2)

RefundFirstPc(promotion) ==
  IF RefundAmountOf(promotion) > 0 THEN "credit" ELSE "setPromo"

StopFirstPc(promotion) == "cancel"

FirstPc(kind, row) ==
  IF kind = "refund" THEN RefundFirstPc(row) ELSE StopFirstPc(row)

\* the for loop moves to the next row of the snapshot
NextItem(r) ==
  {[r EXCEPT !.cur = row, !.batch = @ \ {row}, !.pc = FirstPc(r.kind, row),
             !.remaining = {}] : row \in r.batch}

\* the item is done: the loop takes the next row of the snapshot, or the
\* run ends
Advance(r) ==
  IF r.batch = {} THEN runs' = runs (-) Row(r)
  ELSE \E r2 \in NextItem(r) : runs' = Replace(r, r2)

StartRefundSweep ==
  LET expiredPromotions == ExpiredPromotions(db, now)
  IN  /\ BagCardinality(runs) < MaxRuns
      /\ \E promotion \in expiredPromotions :
           runs' = runs (+) Row([kind |-> "refund", cur |-> promotion,
                                 batch |-> expiredPromotions \ {promotion},
                                 pc |-> RefundFirstPc(promotion),
                                 remaining |-> {}])
      /\ UNCHANGED <<db, now, issued, reqs, errors, call, scheduler>>

RefundCredit ==
  \E r \in BagToSet(runs) :
    /\ r.kind = "refund" /\ r.pc = "credit"
    /\ db' = RefundCreditStep(db, r.cur)
    /\ runs' = Replace(r, [r EXCEPT !.pc = "setPromo"])
    /\ UNCHANGED <<now, issued, reqs, errors, call, scheduler>>

RefundSetPromotion ==
  \E r \in BagToSet(runs) :
    /\ r.kind = "refund" /\ r.pc = "setPromo"
    /\ db' = CompletePromotion(db, r.cur.promotion_id)
    /\ runs' = Replace(r, [r EXCEPT !.pc = "setTask"])
    /\ UNCHANGED <<now, issued, reqs, errors, call, scheduler>>

RefundSetTask ==
  \E r \in BagToSet(runs) :
    /\ r.kind = "refund" /\ r.pc = "setTask"
    /\ db' = CompleteRefundTask(db, r.cur.promotion_id, RefundAmountOf(r.cur))
    /\ Advance(r)
    /\ UNCHANGED <<now, issued, reqs, errors, call, scheduler>>

StartExhaustionSweep ==
  LET exhaustedPromotions == ExhaustedPromotions(db, now)
  IN  /\ BagCardinality(runs) < MaxRuns
      /\ \E promotion \in exhaustedPromotions :
           runs' = runs (+) Row([kind |-> "exhaust", cur |-> promotion,
                                 batch |-> exhaustedPromotions \ {promotion},
                                 pc |-> StopFirstPc(promotion),
                                 remaining |-> {}])
      /\ UNCHANGED <<db, now, issued, reqs, errors, call, scheduler>>

StopCancel ==
  \E r \in BagToSet(runs) :
    /\ r.kind = "exhaust" /\ r.pc = "cancel"
    /\ db' = CancelScheduled(db, r.cur.id, "budget_exhausted")
    /\ runs' = Replace(r, [r EXCEPT !.pc = "setStatus"])
    /\ UNCHANGED <<now, issued, reqs, errors, call, scheduler>>

StopMark ==
  \E r \in BagToSet(runs) :
    /\ r.kind = "exhaust" /\ r.pc = "setStatus"
    /\ db' = MarkStoppedEarly(db, r.cur.id)
    /\ runs' = Replace(r, [r EXCEPT !.pc = "checkBudget"])
    /\ UNCHANGED <<now, issued, reqs, errors, call, scheduler>>

\* const budgetInfo = await this.checkRemainingBudget(promotionId)
StopCheck ==
  \E r \in BagToSet(runs) :
    /\ r.kind = "exhaust" /\ r.pc = "checkBudget"
    /\ LET budgetInfo == checkRemainingBudget(db, r.cur.id)
       IN  IF budgetInfo.remainingBudget > 0
           THEN runs' = Replace(r, [r EXCEPT !.pc = "refund",
                                             !.remaining = {budgetInfo.remainingBudget}])
           ELSE Advance(r)
    /\ UNCHANGED <<db, now, issued, reqs, errors, call, scheduler>>

StopRefund ==
  \E r \in BagToSet(runs) :
    /\ r.kind = "exhaust" /\ r.pc = "refund"
    /\ \E remainingBudget \in r.remaining :
         db' = EarlyRefundStep(db, r.cur.id, remainingBudget)
    /\ Advance(r)
    /\ UNCHANGED <<now, issued, reqs, errors, call, scheduler>>

\* a query of the run throws (or the process shuts down): the exception
\* leaves the for loop and is caught after it
SweepStoreError ==
  \E r \in BagToSet(runs) :
    /\ errors < MaxErrors
    /\ errors' = errors + 1
    /\ runs' = runs (-) Row(r)
    /\ UNCHANGED <<db, now, issued, reqs, call, scheduler>>

(***************************************************************************)
(* Specifications.                                                         *)
(***************************************************************************)
\* new SchedulerService(): not running, no interval timer registered, no
\* sweep started (timers and started are counted per cadence)
Cadences == {"refunds", "exhaustion", "stats"}

NewScheduler ==
  [isRunning |-> FALSE, timers |-> [c \in Cadences |-> 0],
   started |-> [c \in Cadences |-> 0]]

EmptyStore ==
  [promotions |-> <<>>, promotion_queue |-> EmptyBag,
   promotion_expenses |-> EmptyBag, refund_tasks |-> EmptyBag,
   points_ledger |-> EmptyBag]

Init ==
  /\ db = EmptyStore
  /\ now = 0
  /\ issued = 0
  /\ reqs = {}
  /\ runs = EmptyBag
  /\ errors = 0
  /\ call = [op |-> "none"]
  /\ scheduler = NewScheduler

Next ==
  \/ CreatePromotion
  \/ Enqueue
  \/ ScheduleRefundTask
  \/ recordPromotionExpense
  \/ Tick
  \/ StartRefundSweep
  \/ RefundCredit
  \/ RefundSetPromotion
  \/ RefundSetTask
  \/ StartExhaustionSweep
  \/ StopCancel
  \/ StopMark
  \/ StopCheck
  \/ StopRefund

Spec == Init /\ [][Next]_vars

\* the handlers under fair scheduling: the interval timers keep starting
\* the sweeps, every await of a run or a request resolves (no store error),
\* and time passes; requests and expense events arrive as they will
Fairness ==
  /\ WF_vars(Enqueue) /\ WF_vars(ScheduleRefundTask)
  /\ WF_vars(Tick)
  /\ WF_vars(StartRefundSweep) /\ WF_vars(RefundCredit)
  /\ WF_vars(RefundSetPromotion) /\ WF_vars(RefundSetTask)
  /\ WF_vars(StartExhaustionSweep) /\ WF_vars(StopCancel)
  /\ WF_vars(StopMark) /\ WF_vars(StopCheck) /\ WF_vars(StopRefund)

SpecLive == Init /\ [][Next]_vars /\ Fairness

\* a refund sweep that starts while no other sweep run is in progress
StartRefundSweepAlone ==
  /\ runs = EmptyBag
  /\ StartRefundSweep

\* every handler, with store errors in the sweeps and the requests
NextFaulty ==
  \/ Next
  \/ SweepStoreError
  \/ RequestStoreError

SpecFaulty == Init /\ [][NextFaulty]_vars

\* recurring refund sweeps, one run at a time, with store errors
NextRetry ==
  \/ CreatePromotion
  \/ Enqueue
  \/ ScheduleRefundTask
  \/ recordPromotionExpense
  \/ Tick
  \/ StartRefundSweepAlone
  \/ RefundCredit
  \/ RefundSetPromotion
  \/ RefundSetTask
  \/ SweepStoreError

SpecRetry == Init /\ [][NextRetry]_vars

(***************************************************************************)
(* TargetingEngineService.findTargetsWithinFramework as a function of the   *)
(* users table, the content and the targeting framework: the call is drawn  *)
(* in the initial state and FindTargets returns its result.                 *)
(***************************************************************************)
CandidateProfiles ==
  [wealth_level : {"foam", "giant_whale"}, followers_count : {10000},
   recent_activity : {0, 11}, avg_engagement : {0, 100},
   country_code : {{}, {"CN"}}]

UserRow(profile, id) ==
  [user_id |-> id, wealth_level |-> profile.wealth_level,
   country_code |-> profile.country_code, region |-> {},
   followers_count |-> profile.followers_count,
   recent_activity |-> profile.recent_activity,
   avg_engagement |-> profile.avg_engagement, created_at |-> -10]

UserTables ==
  UNION {{[i \in 1..n |-> UserRow(f[i], ids[i])] :
            f \in [1..n -> CandidateProfiles], ids \in Permutations(1..n)} :
         n \in 0..MaxCandidates}

Contents ==
  { [id |-> "post1", author_id |-> "a1", likes |-> 0, replies |-> 0,
     shares |-> 0, text_length |-> 0, has_images |-> FALSE,
     target_wealth_levels |-> {}, location |-> {}],
    [id |-> "post1", author_id |-> "a1", likes |-> 0, replies |-> 50,
     shares |-> 0, text_length |-> 300, has_images |-> FALSE,
     target_wealth_levels |-> {}, location |-> {[country |-> "US", region |-> {}]}],
    [id |-> "post1", author_id |-> "a1", likes |-> 30, replies |-> 10,
     shares |-> 5, text_length |-> 2000, has_images |-> TRUE,
     target_wealth_levels |-> {{"whale", "giant_whale"}},
     location |-> {[country |-> "CN", region |-> {}]}] }

Targetings ==
  { [wealthLevels |-> WealthLevels, preferredRegions |-> {}],
    [wealthLevels |-> {"giant_whale", "whale"}, preferredRegions |-> {"CN"}] }

InitTargeting ==
  /\ db = EmptyStore /\ now = 0 /\ issued = 0 /\ reqs = {}
  /\ runs = EmptyBag /\ errors = 0 /\ scheduler = NewScheduler
  /\ call \in [op : {"findTargets"}, users : UserTables, content : Contents,
               targeting : Targetings, result : {{}}]

FindTargets ==
  /\ call.op = "findTargets" /\ call.result = {}
  /\ call' = [call EXCEPT !.result =
                {findTargetsWithinFramework(call.users, call.content,
                                            call.targeting, now)}]
  /\ UNCHANGED <<db, now, issued, reqs, runs, errors, scheduler>>

SpecTargeting == InitTargeting /\ [][FindTargets]_vars

(***************************************************************************)
(* PricingStrategyService.  Multipliers are carried in tenths (1.2 is 12), *)
(* so a product of k multipliers is in units of 10^-k.                     *)
(***************************************************************************)
ActionTypes ==
  {"view", "like", "unlike", "share", "comment", "unlock", "promo_view",
   "promo_click", "promo_comment", "follow"}

basePrices ==
  [a \in ActionTypes |->
     CASE a = "view" -> 1 [] a = "like" -> 2 [] a = "unlike" -> 1
       [] a = "share" -> 6 [] a = "comment" -> 8 [] a = "unlock" -> 15
       [] a = "promo_view" -> 1 [] a = "promo_click" -> 5
       [] a = "promo_comment" -> 10 [] a = "follow" -> 12]

wealthMultipliers ==
  [w \in WealthLevels |->
     CASE w = "foam" -> 5 [] w = "plankton" -> 10 [] w = "crab" -> 15
       [] w = "fish" -> 20 [] w = "turtle" -> 30 [] w = "dolphin" -> 50
       [] w = "shark" -> 80 [] w = "whale" -> 120 [] w = "giant_whale" -> 200]

calculateDemandMultipliers(timeOfDay, region, isWeekend) ==
  [k \in {"business_hours", "evening", "weekend", region} |->
     IF k = region
     THEN CASE region = "CN" -> 12 [] region = "US" -> 15 [] region = "EU" -> 13
            [] OTHER -> 10
     ELSE CASE k = "business_hours" ->
                 IF timeOfDay >= 9 /\ timeOfDay <= 18 THEN 15 ELSE 10
            [] k = "evening" ->
                 IF timeOfDay >= 19 /\ timeOfDay <= 23 THEN 13 ELSE 10
            [] k = "weekend" -> IF isWeekend THEN 8 ELSE 10]

getQualityTier(quality) ==
  IF quality >= 90 THEN "premium"
  ELSE IF quality >= 75 THEN "high"
  ELSE IF quality >= 60 THEN "medium"
  ELSE "low"

calculateQualityDiscounts(contentQuality) ==
  IF contentQuality >= 90 THEN [k \in {"premium"} |-> 7]
  ELSE IF contentQuality >= 75 THEN [k \in {"high"} |-> 8]
  ELSE IF contentQuality >= 60 THEN [k \in {"medium"} |-> 9]
  ELSE [k \in {"low"} |-> 12]

\* relevanceScore in thousandths, as TargetingEngineService produces it
calculateRelevanceDiscount(relevanceScore) ==
  IF relevanceScore >= 80000 THEN 8
  ELSE IF relevanceScore >= 60000 THEN 9
  ELSE 11

calculateDynamicPricing(contentQuality, timeOfDay, region, isWeekend) ==
  [basePrices |-> basePrices, wealthMultipliers |-> wealthMultipliers,
   demandMultipliers |-> calculateDemandMultipliers(timeOfDay, region, isWeekend),
   qualityDiscounts |-> calculateQualityDiscounts(contentQuality)]

\* pricing.demandMultipliers[user.location?.country || 'default'] || 1.0
DemandMultiplierOf(user, pricing) ==
  LET key == IF user.location = {} THEN "default"
             ELSE (CHOOSE l \in user.location : TRUE).country
      found == Field(pricing.demandMultipliers, key)
  IN  IF found = {} THEN 10 ELSE CHOOSE m \in found : TRUE

\* the first calculateActionPrice of the class body (four parameters, ends
\* in Math.ceil), in whole coins
calculateActionPriceCeil(action, targetUser, pricing, contentQuality) ==
  CeilDiv(pricing.basePrices[action]
            * pricing.wealthMultipliers[targetUser.wealthLevel]
            * DemandMultiplierOf(targetUser, pricing)
            * pricing.qualityDiscounts[getQualityTier(contentQuality)]
            * calculateRelevanceDiscount(targetUser.relevanceScore),
          10000)

\* the second calculateActionPrice of the class body, the one the class
\* keeps: base x wealth x demand, in hundredths of a coin
calculateActionPrice(action, user, pricing) ==
  pricing.basePrices[action] * pricing.wealthMultipliers[user.wealthLevel]
    * DemandMultiplierOf(user, pricing)

wealthLevelValues ==
  [w \in WealthLevels |->
     CASE w = "giant_whale" -> [conversionRate |-> 25, averageValue |-> 100]
       [] w = "whale" -> [conversionRate |-> 20, averageValue |-> 80]
       [] w = "shark" -> [conversionRate |-> 15, averageValue |-> 60]
       [] w = "dolphin" -> [conversionRate |-> 12, averageValue |-> 40]
       [] w = "turtle" -> [conversionRate |-> 8, averageValue |-> 20]
       [] w = "fish" -> [conversionRate |-> 6, averageValue |-> 12]
       [] w = "crab" -> [conversionRate |-> 4, averageValue |-> 8]
       [] w = "plankton" -> [conversionRate |-> 3, averageValue |-> 5]
       [] w = "foam" -> [conversionRate |-> 2, averageValue |-> 3]]

calculateAverageCost(wealthLevel) ==
  CASE wealthLevel = "giant_whale" -> 50 [] wealthLevel = "whale" -> 30
    [] wealthLevel = "shark" -> 20 [] wealthLevel = "dolphin" -> 12
    [] wealthLevel = "turtle" -> 8 [] wealthLevel = "fish" -> 5
    [] wealthLevel = "crab" -> 3 [] wealthLevel = "plankton" -> 2
    [] wealthLevel = "foam" -> 1

\* expectedReturn / cost as an exact fraction over RoiDenominator
\* (conversionRate is in hundredths, 600 is a common multiple of the costs)
RoiDenominator == 60000

LevelRoi(level) ==
  LET stats == wealthLevelValues[level]
  IN  stats.conversionRate * stats.averageValue
        * (600 \div calculateAverageCost(level))

RECURSIVE SumRoi(_)
SumRoi(levels) ==
  IF levels = <<>> THEN 0 ELSE LevelRoi(Head(levels)) + SumRoi(Tail(levels))

\* recommendedAllocation of calculateBudgetOptimization: one entry per key,
\* each (roi / totalROI) * totalBudget kept as the exact fraction num / den
calculateBudgetOptimization(totalBudget, targetWealthLevels) ==
  LET totalROI == SumRoi(targetWealthLevels)
      keys == {targetWealthLevels[i] : i \in 1..Len(targetWealthLevels)}
  IN  [recommendedAllocation |->
         [level \in keys |-> [num |-> LevelRoi(level) * totalBudget,
                              den |-> totalROI]]]

\* the action probabilities of a user, in ten-thousandths; the product
\* engagementProbability x relevanceScore / 100 is carried in hundredths
\* (engagementProbability and relevanceScore are in thousandths)
predictUserActions(user) ==
  LET engagement == (user.engagementProbability * user.relevanceScore)
                      \div 1000000
  IN  [a \in ActionTypes |->
         CASE a = "view" -> 10000 [] a = "promo_view" -> 10000
           [] a = "like" -> engagement * 30 [] a = "unlike" -> engagement * 5
           [] a = "share" -> engagement * 15 [] a = "comment" -> engagement * 10
           [] a = "unlock" -> engagement * 5
           [] a = "promo_click" -> engagement * 20
           [] a = "promo_comment" -> engagement * 8
           [] a = "follow" -> engagement * 8]

\* the inner reduce of calculateDaySpend over the entries of
\* expectedActions: the expected cost of one user, in millionths of a coin
RECURSIVE UserCost(_, _, _)
UserCost(user, pricing, actions) ==
  IF actions = {} THEN 0
  ELSE LET action == CHOOSE a \in actions : TRUE
       IN  calculateActionPrice(action, user, pricing)
             * predictUserActions(user)[action]
             + UserCost(user, pricing, actions \ {action})

\* in millionths of a coin
RECURSIVE calculateDaySpend(_, _)
calculateDaySpend(targets, pricing) ==
  IF targets = <<>> THEN 0
  ELSE UserCost(Head(targets), pricing, ActionTypes)
         + calculateDaySpend(Tail(targets), pricing)

\* targetUsers.slice(day * dailyTargetReach, (day + 1) * dailyTargetReach)
DayTargets(targetUsers, dailyTargetReach, day) ==
  SubSeq(targetUsers, Min(day * dailyTargetReach, Len(targetUsers)) + 1,
         Min((day + 1) * dailyTargetReach, Len(targetUsers)))

\* budget in coins, the spends in millionths of a coin; dayTargets keeps the
\* slice of each day, durationAdjustment is {} when undefined
predictBudgetConsumption(budget, targetUsers, pricing, duration) ==
  LET dailyTargetReach == Len(targetUsers) \div duration
      dayTargets == [d \in 1..duration |->
                       DayTargets(targetUsers, dailyTargetReach, d - 1)]
      dailySpends == [d \in 1..duration |->
                        calculateDaySpend(dayTargets[d], pricing)]
      totalSpend == SumSeq(dailySpends)
  IN  [dailySpend |-> dailySpends,
       totalSpend |-> totalSpend,
       remainingBudget |-> Max(0, budget * 1000000 - totalSpend),
       durationAdjustment |->
         IF totalSpend > budget * 1000000
         THEN {(duration * budget * 1000000) \div totalSpend}
         ELSE {},
       dayTargets |-> dayTargets]

(***************************************************************************)
(* The pricing functions applied to calls drawn in the initial state.      *)
(***************************************************************************)
PricedUsers ==
  [wealthLevel : WealthLevels, relevanceScore : {59000, 60000, 80000},
   location : {{}, {[country |-> "CN"]}, {[country |-> "US"]}}]

\* users as generateMockTargetUsers makes them (no location)
MockTargetUsers ==
  [wealthLevel : {"foam", "whale"}, relevanceScore : {50000},
   engagementProbability : {500}, location : {{}}]

MockTargetLists == UNION {[1..n -> MockTargetUsers] : n \in 0..MaxCohortUsers}

TierLists == UNION {[1..n -> WealthLevels] : n \in 1..MaxTiers}

InitPricing ==
  /\ db = EmptyStore /\ now = 0 /\ issued = 0 /\ reqs = {}
  /\ runs = EmptyBag /\ errors = 0 /\ scheduler = NewScheduler
  /\ \/ call \in [op : {"calculateActionPrice"}, action : ActionTypes,
                  user : PricedUsers, contentQuality : {59, 60, 75, 90},
                  timeOfDay : {3, 12}, region : {"CN", "JP"},
                  isWeekend : BOOLEAN, result : {{}}]
     \/ call \in [op : {"calculateBudgetOptimization"},
                  totalBudget : {1, 100, 10000},
                  targetWealthLevels : TierLists, result : {{}}]
     \/ call \in [op : {"predictBudgetConsumption"}, budget : {1, 100},
                  targetUsers : MockTargetLists, duration : 1..MaxDuration,
                  result : {{}}]

\* a call of the service's calculateActionPrice method
CalculateActionPrice ==
  /\ call.op = "calculateActionPrice" /\ call.result = {}
  /\ LET pricing == calculateDynamicPricing(call.contentQuality, call.timeOfDay,
                                            call.region, call.isWeekend)
     IN  call' = [call EXCEPT !.result =
                    {calculateActionPrice(call.action, call.user, pricing)}]
  /\ UNCHANGED <<db, now, issued, reqs, runs, errors, scheduler>>

CalculateBudgetOptimization ==
  /\ call.op = "calculateBudgetOptimization" /\ call.result = {}
  /\ call' = [call EXCEPT !.result =
                {calculateBudgetOptimization(call.totalBudget,
                                             call.targetWealthLevels)}]
  /\ UNCHANGED <<db, now, issued, reqs, runs, errors, scheduler>>

\* estimatePricing's call: the pricing of a content of quality 70 at noon
\* of a working day in region CN
PredictBudgetConsumption ==
  /\ call.op = "predictBudgetConsumption" /\ call.result = {}
  /\ LET pricing == calculateDynamicPricing(70, 12, "CN", FALSE)
     IN  call' = [call EXCEPT !.result =
                    {predictBudgetConsumption(call.budget, call.targetUsers,
                                              pricing, call.duration)}]
  /\ UNCHANGED <<db, now, issued, reqs, runs, errors, scheduler>>

NextPricing ==
  \/ CalculateActionPrice
  \/ CalculateBudgetOptimization
  \/ PredictBudgetConsumption

SpecPricing == InitPricing /\ [][NextPricing]_vars

(***************************************************************************)
(* ExperienceProtectorService.  ps is the part of the store its queries    *)
(* read: posts (by id, with the author's 30-day average engagement and the *)
(* age in hours), and the trailing-24h promotion_deliveries counted per    *)
(* user, per author and per content type.  Scores are in thousandths.      *)
(***************************************************************************)
checkAuthorReputation(post) == Min(1000, post.author_avg_engagement * 20)

\* postId is {} when the caller's object has no postId property
checkContentQuality(ps, postId) ==
  LET post == {r \in ps.posts : {r.id} = postId}
  IN  IF post = {} THEN [score |-> 0, issues |-> {"post_not_found"}]
      ELSE LET r == CHOOSE x \in post : TRUE
               score == 30000 + Min(40000, r.engagement_score * 500)
                          + (IF r.text_length < 50 THEN -20000
                             ELSE IF r.text_length > 200 THEN 15000 ELSE 0)
                          + checkAuthorReputation(r) * 15
                          - (IF r.hours_ago > 168 THEN 10000 ELSE 0)
           IN  [score |-> Max(0, Min(100000, score)),
                issues |-> {i \in {"content_too_short"} : r.text_length < 50}
                             \cup {i \in {"content_too_old"} : r.hours_ago > 168}]

\* COUNT(*) of the user's deliveries; user_id = NULL matches no row
DailyCount(ps, user) ==
  LET userId == Field(user, "userId")
  IN  IF userId = {} THEN 0 ELSE ps.deliveries[CHOOSE u \in userId : TRUE]

\* passed is violationRate < 0.2 with violationRate = violating / min(n, 100);
\* for n = 0 the rate is 0 / 0 = NaN and the comparison is false
checkFrequencyLimits(ps, promotion, targetUsers) ==
  LET sampled == Min(Len(targetUsers), FrequencySample)
      violatingUsers == {i \in 1..sampled :
                           DailyCount(ps, targetUsers[i]) >= DailyLimit}
  IN  [passed |-> sampled # 0 /\ Cardinality(violatingUsers) * 5 < sampled,
       recommendedLimit |-> DailyLimit,
       violatingUsers |-> violatingUsers]

\* dominanceRatio < 0.6 with dominanceRatio = max / Math.max(1, total);
\* Math.max() of no rows is -Infinity
checkContentTypeDiversity(ps) ==
  LET totalPromotions == SumSeq(ps.typeStats)
      counts == {ps.typeStats[i] : i \in 1..Len(ps.typeStats)}
  IN  [passed |-> \A c \in counts : c * 5 < 3 * Max(1, totalPromotions)]

checkPromotionDiversity(ps, promotion) ==
  LET authorId == Field(promotion, "authorId")
      authorDailyCount ==
        IF authorId = {} THEN 0
        ELSE ps.authorDeliveries[CHOOSE a \in authorId : TRUE]
      issues == {i \in {"same_author_too_frequent"} : authorDailyCount >= AuthorLimit}
                  \cup {i \in {"content_type_not_diverse"} :
                          ~checkContentTypeDiversity(ps).passed}
  IN  [passed |-> issues = {}, issues |-> issues]

calculateSafetyScore(qualityCheck, frequencyCheck, diversityCheck) ==
  Min(100000, qualityCheck.score \div 2
                + (IF frequencyCheck.passed THEN 30000 ELSE 0)
                + (IF diversityCheck.passed THEN 20000 ELSE 0))

\* the checks without the quality floor
checkPromotionSafety_NoQualityFloor(ps, promotion, targetUsers) ==
  LET qualityCheck == checkContentQuality(ps, Field(promotion, "postId"))
      frequencyCheck == checkFrequencyLimits(ps, promotion, targetUsers)
      diversityCheck == checkPromotionDiversity(ps, promotion)
  IN  IF ~frequencyCheck.passed
      THEN [approved |-> FALSE, safetyScore |-> 0,
            rejectionReason |-> {"frequency_limit_exceeded"},
            checks |-> <<"quality", "frequency">>]
      ELSE IF ~diversityCheck.passed
      THEN [approved |-> FALSE, safetyScore |-> 0,
            rejectionReason |-> {"diversity_requirements_not_met"},
            checks |-> <<"quality", "frequency", "diversity">>]
      ELSE [approved |-> TRUE,
            safetyScore |-> calculateSafetyScore(qualityCheck, frequencyCheck,
                                                 diversityCheck),
            rejectionReason |-> {},
            checks |-> <<"quality", "frequency", "diversity">>]

\* the three checks in another order: frequency before quality
checkPromotionSafety_FrequencyFirst(ps, promotion, targetUsers) ==
  LET qualityCheck == checkContentQuality(ps, Field(promotion, "postId"))
      frequencyCheck == checkFrequencyLimits(ps, promotion, targetUsers)
      diversityCheck == checkPromotionDiversity(ps, promotion)
  IN  IF ~frequencyCheck.passed
      THEN [approved |-> FALSE, safetyScore |-> 0,
            rejectionReason |-> {"frequency_limit_exceeded"},
            checks |-> <<"frequency">>]
      ELSE IF qualityCheck.score < QualityThreshold
      THEN [approved |-> FALSE, safetyScore |-> qualityCheck.score,
            rejectionReason |-> {"content_quality_too_low"},
            checks |-> <<"frequency", "quality">>]
      ELSE IF ~diversityCheck.passed
      THEN [approved |-> FALSE, safetyScore |-> 0,
            rejectionReason |-> {"diversity_requirements_not_met"},
            checks |-> <<"frequency", "quality", "diversity">>]
      ELSE [approved |-> TRUE,
            safetyScore |-> calculateSafetyScore(qualityCheck, frequencyCheck,
                                                 diversityCheck),
            rejectionReason |-> {},
            checks |-> <<"frequency", "quality", "diversity">>]

\* checks lists the checks whose queries have run when the method returns
checkPromotionSafety(ps, promotion, targetUsers) ==
  LET qualityCheck == checkContentQuality(ps, Field(promotion, "postId"))
      frequencyCheck == checkFrequencyLimits(ps, promotion, targetUsers)
      diversityCheck == checkPromotionDiversity(ps, promotion)
  IN  IF qualityCheck.score < QualityThreshold
      THEN [approved |-> FALSE, safetyScore |-> qualityCheck.score,
            rejectionReason |-> {"content_quality_too_low"},
            checks |-> <<"quality">>]
      ELSE IF ~frequencyCheck.passed
      THEN [approved |-> FALSE, safetyScore |-> 0,
            rejectionReason |-> {"frequency_limit_exceeded"},
            checks |-> <<"quality", "frequency">>]
      ELSE IF ~diversityCheck.passed
      THEN [approved |-> FALSE, safetyScore |-> 0,
            rejectionReason |-> {"diversity_requirements_not_met"},
            checks |-> <<"quality", "frequency", "diversity">>]
      ELSE [approved |-> TRUE,
            safetyScore |-> calculateSafetyScore(qualityCheck, frequencyCheck,
                                                 diversityCheck),
            rejectionReason |-> {},
            checks |-> <<"quality", "frequency", "diversity">>]

\* approved and rejected hold the promotions in the order of the argument,
\* each with the outcome of its check
protectUserExperience(ps, promotions, targetUsers) ==
  LET check(i) == checkPromotionSafety(ps, promotions[i], targetUsers)
      entry(i) == [promotion |-> promotions[i], check |-> check(i)]
      all == [i \in 1..Len(promotions) |-> entry(i)]
      isApproved(e) == e.check.approved
      isRejected(e) == ~e.check.approved
  IN  [approvedPromotions |-> SelectSeq(all, isApproved),
       rejectedPromotions |-> SelectSeq(all, isRejected)]

(***************************************************************************)
(* protectUserExperience applied to calls drawn in the initial state.  The *)
(* promotion is the optimizer's { ...request, content } (postId, authorId) *)
(* or the controller's posts row (id, author_id); a target user is a       *)
(* TargetUser (userId) or a scored candidate row (user_id).                *)
(***************************************************************************)
ProtectedPromotions ==
  { [postId |-> "post1", authorId |-> "a1"],
    [postId |-> "post0", authorId |-> "a1"],
    [id |-> "post1", author_id |-> "a1"] }

QualityRows ==
  { [id |-> "post1", engagement_score |-> 0, text_length |-> 0,
     author_avg_engagement |-> 0, hours_ago |-> 200],
    [id |-> "post1", engagement_score |-> 20, text_length |-> 0,
     author_avg_engagement |-> 50, hours_ago |-> 1],
    [id |-> "post1", engagement_score |-> 20, text_length |-> 100,
     author_avg_engagement |-> 0, hours_ago |-> 1],
    [id |-> "post1", engagement_score |-> 80, text_length |-> 300,
     author_avg_engagement |-> 50, hours_ago |-> 1] }

TargetUserOf(shape, i) ==
  IF shape = "userId" THEN [userId |-> i] ELSE [user_id |-> i]

InitProtector ==
  /\ db = EmptyStore /\ now = 0 /\ issued = 0 /\ reqs = {}
  /\ runs = EmptyBag /\ errors = 0 /\ scheduler = NewScheduler
  /\ \E n \in 0..MaxTargets :
       \E promotion \in ProtectedPromotions, post \in QualityRows,
          shape \in [1..n -> {"userId", "user_id"}],
          deliveries \in [1..n -> {DailyLimit - 1, DailyLimit}],
          authorCount \in {AuthorLimit - 1, AuthorLimit},
          typeStats \in {<<>>, <<3, 2>>, <<2, 1>>} :
         call = [op |-> "protectUserExperience",
                 ps |-> [posts |-> {post}, deliveries |-> deliveries,
                         authorDeliveries |-> [a \in {"a1"} |-> authorCount],
                         typeStats |-> typeStats],
                 promotions |-> <<promotion>>,
                 targetUsers |-> [i \in 1..n |-> TargetUserOf(shape[i], i)],
                 result |-> {}]

ProtectUserExperience ==
  /\ call.op = "protectUserExperience" /\ call.result = {}
  /\ call' = [call EXCEPT !.result =
                {protectUserExperience(call.ps, call.promotions, call.targetUsers)}]
  /\ UNCHANGED <<db, now, issued, reqs, runs, errors, scheduler>>

SpecProtector == InitProtector /\ [][ProtectUserExperience]_vars

(***************************************************************************)
(* The targeting split of optimizePromotionWithinFramework applied to a    *)
(* ranked list drawn in the initial state.  The split reads the length of  *)
(* the list and none of its entries' fields; an entry is a scored          *)
(* candidate row, named by its rank.                                       *)
(***************************************************************************)
RankedLists ==
  {[i \in 1..n |-> [user_id |-> i]] : n \in 0..MaxRanked}

InitPlan ==
  /\ db = EmptyStore /\ now = 0 /\ issued = 0 /\ reqs = {}
  /\ runs = EmptyBag /\ errors = 0 /\ scheduler = NewScheduler
  /\ call \in [op : {"targetingPlan"}, targetUsers : RankedLists,
               result : {{}}]

SplitTargets ==
  /\ call.op = "targetingPlan" /\ call.result = {}
  /\ call' = [call EXCEPT !.result = {TargetingPlan(call.targetUsers)}]
  /\ UNCHANGED <<db, now, issued, reqs, runs, errors, scheduler>>

SpecPlan == InitPlan /\ [][SplitTargets]_vars

(***************************************************************************)
(* SchedulerService.start and stop, and the interval timers firing.  The   *)
(* timers are counted per cadence, and so are the sweeps started so far.   *)
(***************************************************************************)
InitScheduler ==
  /\ db = EmptyStore /\ now = 0 /\ issued = 0 /\ reqs = {}
  /\ runs = EmptyBag /\ errors = 0
  /\ call = [op |-> "none"]
  /\ scheduler = NewScheduler

\* start(): returns at once when running; else registers the three
\* intervals and calls processRefunds once
SchedulerStart ==
  /\ ~scheduler.isRunning =>
       /\ scheduler.timers["refunds"] < MaxTimers
       /\ scheduler.started["refunds"] < MaxSweeps
  /\ scheduler' =
       IF scheduler.isRunning THEN scheduler
       ELSE [isRunning |-> TRUE,
             timers |-> [c \in Cadences |-> scheduler.timers[c] + 1],
             started |-> [scheduler.started EXCEPT !["refunds"] = @ + 1]]
  /\ UNCHANGED <<db, now, issued, reqs, runs, errors, call>>

\* stop(): this.isRunning = false
SchedulerStop ==
  /\ scheduler' = [scheduler EXCEPT !.isRunning = FALSE]
  /\ UNCHANGED <<db, now, issued, reqs, runs, errors, call>>

\* a registered interval elapses and its callback starts the sweep
TimerFires ==
  \E c \in Cadences :
    /\ scheduler.timers[c] > 0
    /\ scheduler.started[c] < MaxSweeps
    /\ scheduler' = [scheduler EXCEPT !.started[c] = @ + 1]
    /\ UNCHANGED <<db, now, issued, reqs, runs, errors, call>>

NextScheduler == SchedulerStart \/ SchedulerStop \/ TimerFires

SpecScheduler == InitScheduler /\ [][NextScheduler]_vars

(***************************************************************************)
(* SchedulerService.resetDailyStats on a user_promotion_stats table drawn  *)
(* in the initial state.  Dates are UTC day numbers, the clock is in hours *)
(* since day 0; last_promotion_date is {} when NULL.                       *)
(***************************************************************************)
StatsUsers == {"u1", "u2"}

StatsRows ==
  [daily_promotion_count : {0, 3}, weekly_promotion_count : {5},
   last_promotion_date : {{}, {1}, {2}}]

\* now.toISOString().split('T')[0]: the UTC day of the clock
Today(hours) == hours \div 24

\* mutant: WHERE last_promotion_date <= $1
resetDailyStats_ThroughToday(stats, hours) ==
  [u \in DOMAIN stats |->
     IF \E d \in stats[u].last_promotion_date : d <= Today(hours)
     THEN [stats[u] EXCEPT !.daily_promotion_count = 0]
     ELSE stats[u]]

\* UPDATE user_promotion_stats SET daily_promotion_count = 0
\* WHERE last_promotion_date < $1 (a NULL date compares as unknown)
resetDailyStats(stats, hours) ==
  [u \in DOMAIN stats |->
     IF \E d \in stats[u].last_promotion_date : d < Today(hours)
     THEN [stats[u] EXCEPT !.daily_promotion_count = 0]
     ELSE stats[u]]

InitStats ==
  /\ db = EmptyStore /\ now = 0 /\ issued = 0 /\ reqs = {}
  /\ runs = EmptyBag /\ errors = 0 /\ scheduler = NewScheduler
  /\ \E before \in [StatsUsers -> StatsRows], hours \in {30, 50, 71} :
       call = [op |-> "resetDailyStats", before |-> before, stats |-> before,
               hours |-> hours, resets |-> 0]

\* one run of the sweep; the clock stays within the day
ResetDailyStats ==
  /\ call.op = "resetDailyStats" /\ call.resets < MaxResets
  /\ call' = [call EXCEPT !.stats = resetDailyStats(call.stats, call.hours),
                          !.resets = @ + 1]
  /\ UNCHANGED <<db, now, issued, reqs, runs, errors, scheduler>>

SpecStats == InitStats /\ [][ResetDailyStats]_vars

(***************************************************************************)
(* The legacy POST /promotions/fetch handler as a function of the request  *)
(* body and of the rows its query returns (promoted posts of the last 72   *)
(* hours with a budget, newest first).  Priorities are in sixtieths, which *)
(* keeps 1.5 x shares and 10 / ageH exact for the ages used.  An optional  *)
(* field of the body is {} when absent.                                    *)
(***************************************************************************)
\* the PROMO_PRICE_* defaults
promoPrices ==
  [view |-> 1, click |-> 5, like |-> 2, comment |-> 8, share |-> 6,
   unlock |-> 10]

\* Math.min(Math.max(body.desired?.total || 3, 0), 5): an absent total and a
\* total of 0 are both falsy
FetchLimit(total) ==
  LET given == {t \in total : t # 0}
      wanted == IF given = {} THEN 3 ELSE CHOOSE t \in given : TRUE
  IN  Min(Max(wanted, 0), 5)

PromoSpent(r) ==
  r.promo_views * promoPrices.view + r.promo_clicks * promoPrices.click
    + r.likes_promo * promoPrices.like + r.comments_promo * promoPrices.comment
    + r.shares_promo * promoPrices.share + r.unlocks_promo * promoPrices.unlock

\* the three filters of the handler
FetchKeeps(r, body) ==
  /\ r.id \notin body.seenPostIds /\ r.author_id \notin body.blockedAuthorIds
  /\ PromoSpent(r) < r.promo_budget_coco
  /\ \/ body.wealth = {}
     \/ r.target_wealth_levels = {}
     \/ body.wealth \subseteq r.target_wealth_levels

\* the item of a row: priority = quality + 10 / ageH + wealthMatch with the
\* default weights (unlock weight 8)
FetchItem(r, body) ==
  LET ageH == Max(1, r.age_hours)
      quality == r.likes * 60 + r.replies * 120 + r.shares * 90
                   + r.unlocks_72h * 480
      freshness == 600 \div ageH
      wealthMatch == IF body.wealth # {}
                        /\ body.wealth \subseteq r.target_wealth_levels
                     THEN 60 ELSE 0
  IN  [postId |-> r.id, authorId |-> r.author_id,
       priority |-> quality + freshness + wealthMatch]

\* Array.prototype.sort with (a, b) => b.priority - a.priority: stable,
\* descending
RECURSIVE FetchInsert(_, _)
FetchInsert(sorted, x) ==
  IF sorted = <<>> THEN <<x>>
  ELSE IF Head(sorted).priority < x.priority THEN <<x>> \o sorted
  ELSE <<Head(sorted)>> \o FetchInsert(Tail(sorted), x)

RECURSIVE FetchSort(_)
FetchSort(items) ==
  IF items = <<>> THEN <<>>
  ELSE FetchInsert(FetchSort(SubSeq(items, 1, Len(items) - 1)),
                   items[Len(items)])

\* the items of the response
fetchPromotions(rows, body) ==
  LET keeps(r) == FetchKeeps(r, body)
      kept == SelectSeq(rows, keeps)
      scored == FetchSort([i \in 1..Len(kept) |-> FetchItem(kept[i], body)])
  IN  SubSeq(scored, 1, Min(FetchLimit(body.total), Len(scored)))

\* the i-th newest promoted post: i hours old, budget 10, one promo click
\* accounted
PromotedRow(i, v) ==
  [id |-> i, author_id |-> v.author_id, age_hours |-> i,
   likes |-> v.likes, replies |-> 0, shares |-> 1, unlocks_72h |-> 0,
   target_wealth_levels |-> v.target_wealth_levels,
   promo_budget_coco |-> 10, promo_views |-> v.promo_views,
   promo_clicks |-> 1, likes_promo |-> 0, comments_promo |-> 0,
   shares_promo |-> 0, unlocks_promo |-> 0]

RowVariants ==
  [author_id : {"a1", "a2"}, likes : {0, 3}, promo_views : {4, 5},
   target_wealth_levels : {{}, {"whale"}}]

FetchBodies ==
  [total : {{}, {0}, {1}, {2}, {9}, {-1}}, seenPostIds : {{}, {1}},
   blockedAuthorIds : {{}, {"a1"}}, wealth : {{}, {"fish"}}]

InitFetch ==
  /\ db = EmptyStore /\ now = 0 /\ issued = 0 /\ reqs = {}
  /\ runs = EmptyBag /\ errors = 0 /\ scheduler = NewScheduler
  /\ \E n \in 0..MaxRows :
       \E variants \in [1..n -> RowVariants], body \in FetchBodies :
         call = [op |-> "fetch",
                 rows |-> [i \in 1..n |-> PromotedRow(i, variants[i])],
                 body |-> body, result |-> {}]

FetchPromotions ==
  /\ call.op = "fetch" /\ call.result = {}
  /\ call' = [call EXCEPT !.result = {fetchPromotions(call.rows, call.body)}]
  /\ UNCHANGED <<db, now, issued, reqs, runs, errors, scheduler>>

SpecFetch == InitFetch /\ [][FetchPromotions]_vars

(***************************************************************************)
(* Properties.                                                             *)
(***************************************************************************)
Terminal(status) == status \in {"completed", "stopped_early"}

CreditRow(authorId, amount, promotionId) ==
  [user_id |-> authorId, amount |-> amount, type |-> "earn",
   reference_type |-> "promotion_refund", reference_id |-> promotionId]

\* C1: a promotion leaves 'active' at most once: a status other than
\* 'active' is never overwritten (completed never becomes stopped_early,
\* stopped_early never becomes completed)
C1_LeavesActiveOnce ==
  [][\A i \in DOMAIN db.promotions :
        db.promotions[i].status # "active"
          => db'.promotions[i].status = db.promotions[i].status]_vars

\* C2: the ledger never holds more than one promotion_refund credit that
\* references the same promotion
C2_AtMostOneRefundCredit ==
  \A i \in DOMAIN db.promotions : NumRefundCredits(db, i) <= 1

\* the refund tasks the refund sweep is due to process at time t
DueTasks(d, t) ==
  {rt \in BagToSet(d.refund_tasks) :
      rt.status = "scheduled" /\ rt.refund_date <= t}

\* the store of the scenarios: one promotion of budget 100 created at day 0
\* for 7 days with one queued recipient, and the given expense rows
ScenarioStore(costs) ==
  LET request == [authorId |-> "a1", postId |-> "post1", total |-> 100,
                  duration |-> 7,
                  targeting |-> [wealthLevels |-> {"fish"},
                                 preferredRegions |-> {}]]
      d1 == recordPromotionRequest(EmptyStore, 1, request, 0)
      d2 == [d1 EXCEPT !.promotion_queue =
                Row([promotion_id |-> 1, user_id |-> "u1",
                     status |-> "scheduled", cancellation_reason |-> {}])]
      d3 == scheduleRefundTask(d2, 1, 100, RefundDays, 0)
  IN  [d3 EXCEPT !.promotion_expenses =
         [c \in DOMAIN costs |-> costs[c]]]

\* three expense rows of 10, 10 and 20
ScenarioA == ScenarioStore([r \in {[promotion_id |-> 1, cost |-> 10],
                                   [promotion_id |-> 1, cost |-> 20]} |->
                              IF r.cost = 10 THEN 2 ELSE 1])

\* expense rows of 49 and 50
ScenarioB == ScenarioStore([r \in {[promotion_id |-> 1, cost |-> 49],
                                   [promotion_id |-> 1, cost |-> 50]} |-> 1])

\* C3: two refund sweeps in sequence over a store with due scheduled tasks:
\* the first appends exactly one credit for each due task whose promotion
\* has unspent budget, the second changes no row of the store
C3_SecondRefundSweepNoOp ==
  LET d1 == processScheduledRefunds(db, now)
      d2 == processScheduledRefunds(d1, now)
      unspent == {rt \in DueTasks(db, now) :
                     rt.original_budget > TotalSpent(db, rt.promotion_id)}
  IN  /\ d2 = d1
      /\ \A rt \in unspent :
           NumRefundCredits(d2, rt.promotion_id)
             = NumRefundCredits(db, rt.promotion_id) + 1
      /\ BagCardinality(d2.points_ledger)
           = BagCardinality(db.points_ledger)
               + Cardinality({rt.promotion_id : rt \in unspent})

\* a sweep has completed one task with a nonzero refund and another task
\* with unspent budget is due
C3_Witness ==
  /\ \E rt \in BagToSet(db.refund_tasks) :
       rt.status = "completed" /\ rt.refund_amount \notin {{}, {0}}
  /\ \E rt \in DueTasks(db, now) :
       rt.original_budget > TotalSpent(db, rt.promotion_id)

\* C4: a refund sweep over a due scheduled task whose promotion is already
\* 'stopped_early' completes the task with refundAmount 0, appends no credit
\* and leaves the promotion 'stopped_early'
C4_StoppedEarlyGetsZeroRefund ==
  LET d1 == processScheduledRefunds(db, now)
  IN  \A rt \in DueTasks(db, now) :
        (runs = EmptyBag /\ db.promotions[rt.promotion_id].status = "stopped_early") =>
          /\ \A x \in TasksOf(d1, rt.promotion_id) :
               x.status = "completed" /\ x.refund_amount = {0}
          /\ NumRefundCredits(d1, rt.promotion_id)
               = NumRefundCredits(db, rt.promotion_id)
          /\ d1.promotions[rt.promotion_id].status = "stopped_early"

\* C5: a step of stopPromotionEarly on a promotion that the refund sweep has
\* meanwhile credited and completed changes neither its status nor the ledger
C5_StopAfterCompletedNoOp ==
  [][\A r \in BagToSet(runs) :
        ( /\ r.kind = "exhaust"
          /\ db.promotions[r.cur.id].status = "completed"
          /\ NumRefundCredits(db, r.cur.id) >= 1
          /\ CopiesIn(r, runs') < CopiesIn(r, runs) )
        => /\ db'.promotions[r.cur.id].status = "completed"
           /\ db'.points_ledger = db.points_ledger]_vars

\* C6: a refund sweep over a due scheduled task of an active promotion with
\* budget B and spend S appends one credit of max(0, B - S) to the author
\* (none when it is 0), completes the promotion and completes the task with
\* refundAmount max(0, B - S); with B = 100 and S = 40 it credits 60
C6_RefundSweepCredit ==
  LET d1 == processScheduledRefunds(db, now)
      a1 == processScheduledRefunds(ScenarioA, 7)
  IN  /\ \A rt \in DueTasks(db, now) :
           db.promotions[rt.promotion_id].status = "active" =>
             LET pid == rt.promotion_id
                 amount == Max(0, rt.original_budget - TotalSpent(db, pid))
                 credit == CreditRow(db.promotions[pid].author_id, amount, pid)
             IN  /\ d1.promotions[pid].status = "completed"
                 /\ NumTasks(d1, pid) = NumTasks(db, pid)
                 /\ \A x \in TasksOf(d1, pid) :
                      x.status = "completed" /\ x.refund_amount = {amount}
                 /\ NumRefundCredits(d1, pid)
                      = NumRefundCredits(db, pid) + (IF amount > 0 THEN 1 ELSE 0)
                 /\ amount > 0 =>
                      CopiesIn(credit, d1.points_ledger)
                        = CopiesIn(credit, db.points_ledger) + 1
      /\ a1.points_ledger = Row(CreditRow("a1", 60, 1))
      /\ a1.promotions[1].status = "completed"

\* a due scheduled task of an active promotion with some spend and some
\* budget left
C6_Witness ==
  \E rt \in DueTasks(db, now) :
    /\ db.promotions[rt.promotion_id].status = "active"
    /\ TotalSpent(db, rt.promotion_id) > 0
    /\ rt.original_budget > TotalSpent(db, rt.promotion_id)

\* C7: an exhaustion sweep over an active, unexpired promotion with spend
\* S >= 0.98 x budgetTotal leaves it no 'scheduled' queue entry (each one is
\* 'cancelled' with reason budget_exhausted), sets it 'stopped_early' and
\* appends exactly one credit of budgetTotal - S when that is positive; with
\* budget 100 and spend 99 it credits 1
C7_ExhaustionSweepStops ==
  LET d1 == checkBudgetExhaustion(db, now)
      b1 == checkBudgetExhaustion(ScenarioB, 3)
  IN  /\ \A pid \in DOMAIN db.promotions :
           ( /\ db.promotions[pid].status = "active"
             /\ db.promotions[pid].expires_at > now
             /\ TotalSpent(db, pid) * 100 >= db.promotions[pid].budget_total * 98 )
           => LET left == db.promotions[pid].budget_total - TotalSpent(db, pid)
                  credit == CreditRow(db.promotions[pid].author_id, left, pid)
                  was(st) == {q \in QueueOf(db, pid) : q.status = st}
                  is(st) == {q \in QueueOf(d1, pid) : q.status = st}
              IN  /\ is("scheduled") = {}
                  /\ CountRows(d1.promotion_queue, is("cancelled"))
                       = CountRows(db.promotion_queue, was("cancelled"))
                           + CountRows(db.promotion_queue, was("scheduled"))
                  /\ \A q \in is("cancelled") \ was("cancelled") :
                       q.cancellation_reason = {"budget_exhausted"}
                  /\ d1.promotions[pid].status = "stopped_early"
                  /\ NumRefundCredits(d1, pid)
                       = NumRefundCredits(db, pid) + (IF left > 0 THEN 1 ELSE 0)
                  /\ left > 0 =>
                       CopiesIn(credit, d1.points_ledger)
                         = CopiesIn(credit, db.points_ledger) + 1
      /\ b1.points_ledger = Row(CreditRow("a1", 1, 1))
      /\ b1.promotions[1].status = "stopped_early"
      /\ \A q \in BagToSet(b1.promotion_queue) : q.status = "cancelled"

\* an active, unexpired promotion at the threshold with budget left, which
\* the sweep stops
C7_Witness ==
  \E pid \in DOMAIN db.promotions :
    /\ db.promotions[pid].status = "active"
    /\ db.promotions[pid].expires_at > now
    /\ TotalSpent(db, pid) * 100 >= db.promotions[pid].budget_total * 98
    /\ TotalSpent(db, pid) < db.promotions[pid].budget_total
    /\ checkBudgetExhaustion(db, now).promotions[pid].status = "stopped_early"

\* C8: a sweep run whose snapshot still holds unprocessed items does not end
\* (a store failure on one item leaves the rest of the batch to be processed
\* by the same run)
C8_RunFinishesItsBatch ==
  [][\A r \in BagToSet(runs) :
        r.batch # {} => runs' # runs (-) Row(r)]_vars

\* C9: with sweeps interrupted by store errors and re-run, a promotion whose
\* refund task is completed has a terminal status and at most one credit
C9_RetryCreditsOnce ==
  \A rt \in BagToSet(db.refund_tasks) :
    rt.status = "completed" =>
      /\ Terminal(db.promotions[rt.promotion_id].status)
      /\ NumRefundCredits(db, rt.promotion_id) <= 1

\* C10: every promotion row whose createPromotion request has finished has
\* exactly one refund task
C10_OneRefundTaskPerPromotion ==
  \A pid \in DOMAIN db.promotions :
    (\A q \in reqs : q.promotionId # pid) => NumTasks(db, pid) = 1

\* C11: the refund task of a created promotion is due at created_at +
\* min(duration, 7) days, the promotion's expires_at
C11_RefundDateIsExpiry ==
  \A pid \in DOMAIN db.promotions : \A rt \in TasksOf(db, pid) :
    LET p == db.promotions[pid]
    IN  /\ rt.refund_date = p.created_at + Min(p.duration_days, MaxDurationDays)
        /\ rt.refund_date = p.expires_at

\* C12: a creation request whose postId references no post writes nothing:
\* no promotion row, no queue entry and no refund task exists for it
C12_AbsentPostWritesNothing ==
  /\ \A pid \in DOMAIN db.promotions : getContentInfo(db.promotions[pid].post_id) # {}
  /\ \A q \in BagToSet(db.promotion_queue) : q.promotion_id \in DOMAIN db.promotions
  /\ \A rt \in BagToSet(db.refund_tasks) : rt.promotion_id \in DOMAIN db.promotions

\* the users table holds no user of the promotion's wealth tiers
NoCandidates(p) ==
  \A i \in 1..Len(Users) : Users[i].wealth_level \notin p.target_wealth_levels

\* the request that created promotion pid has returned
Returned(pid) == \A q \in reqs : q.promotionId # pid

\* C13: a promotion of an existing post whose wealth tiers match no user is
\* created without error (the request runs to its last step, the refund
\* task), its plan has totalReach 0 and empty primary and secondary targets,
\* and it has no queue entry
C13_ZeroCandidatesEmptyPlan ==
  \A pid \in DOMAIN db.promotions :
    LET p == db.promotions[pid]
        content == getContentInfo(p.post_id)
        targeting == [wealthLevels |-> p.target_wealth_levels,
                      preferredRegions |-> p.preferred_regions]
        plan == TargetingPlan(
                  findTargetsWithinFramework(Users, CHOOSE c \in content : TRUE,
                                             targeting, p.created_at))
    IN  (content # {} /\ NoCandidates(p)) =>
          /\ plan.totalReach = 0
          /\ plan.primaryTargets = <<>> /\ plan.secondaryTargets = <<>>
          /\ QueueOf(db, pid) = {}
          /\ Returned(pid) => NumTasks(db, pid) = 1

\* a created promotion without candidates whose request has returned
C13_Witness ==
  \E pid \in DOMAIN db.promotions :
    /\ getContentInfo(db.promotions[pid].post_id) # {}
    /\ NoCandidates(db.promotions[pid])
    /\ Returned(pid) /\ NumTasks(db, pid) = 1 /\ QueueOf(db, pid) = {}

\* C16: every target user returned by findTargetsWithinFramework has
\* relevanceScore in [0,100], engagementProbability in [0,0.9] and
\* influenceMultiplier in [1,5]
C16_ScoresInRange ==
  \A targets \in call.result : \A i \in 1..Len(targets) :
    /\ targets[i].relevanceScore \in 0..100000
    /\ targets[i].engagementProbability \in 0..900
    /\ targets[i].influenceMultiplier \in 1000..5000

\* a result with a user at the upper limit of all three scores and a user
\* at the lower limit of the influence multiplier
C16_Witness ==
  \E targets \in call.result :
    /\ \E i \in 1..Len(targets) :
         /\ targets[i].relevanceScore = 100000
         /\ targets[i].engagementProbability = 900
         /\ targets[i].influenceMultiplier = 5000
    /\ \E i \in 1..Len(targets) : targets[i].influenceMultiplier = 1000

\* relevanceScore x engagementProbability x influenceMultiplier x
\* wealthTierValue(tier) of a returned user, in ten-thousandths
CompositeValue(u) ==
  LET tierValue == CHOOSE v \in getWealthLevelValue({u.wealth_level}) : TRUE
  IN  ((((u.relevanceScore * u.engagementProbability) \div 1000)
          * u.influenceMultiplier) \div 1000) * tierValue

\* C17: the sequence returned by findTargetsWithinFramework has at most 1000
\* users, is in non-increasing order of composite value with equal values in
\* ascending userId order, and omits no candidate of higher composite value
\* than one it returns
C17_RankedByCompositeValue ==
  \A targets \in call.result :
    LET candidates == queryCandidatesInFramework(call.users, call.targeting, now)
        scored == {ScoreCandidate(call.content, candidates[i]) :
                     i \in 1..Len(candidates)}
        returned == {targets[i] : i \in 1..Len(targets)}
    IN  /\ Len(targets) <= TargetLimit
        /\ \A i, j \in 1..Len(targets) :
             i < j =>
               \/ CompositeValue(targets[i]) > CompositeValue(targets[j])
               \/ /\ CompositeValue(targets[i]) = CompositeValue(targets[j])
                  /\ targets[i].user_id < targets[j].user_id
        /\ \A o \in scored \ returned : \A r \in returned :
             CompositeValue(o) <= CompositeValue(r)

RECURSIVE SumAllocated(_, _)
SumAllocated(allocation, levels) ==
  IF levels = {} THEN 0
  ELSE LET l == CHOOSE x \in levels : TRUE
       IN  allocation[l].num + SumAllocated(allocation, levels \ {l})

\* C14: the values of recommendedAllocation returned by
\* calculateBudgetOptimization sum exactly to the total budget, for every
\* non-empty list of tiers (repeated tiers included)
C14_AllocationSumsToTotal ==
  call.op = "calculateBudgetOptimization" =>
    \A r \in call.result :
      LET allocation == r.recommendedAllocation
          den == SumRoi(call.targetWealthLevels)
      IN  /\ \A l \in DOMAIN allocation : allocation[l].den = den
          /\ SumAllocated(allocation, DOMAIN allocation) = call.totalBudget * den

\* C15: a price returned by calculateActionPrice is a whole number of coins,
\* at least 1, equal to ceil(base x wealth x demand x quality x relevance)
C15_PriceIsPositiveInteger ==
  call.op = "calculateActionPrice" =>
    \A price \in call.result :
      LET pricing == calculateDynamicPricing(call.contentQuality, call.timeOfDay,
                                             call.region, call.isWeekend)
      IN  /\ price % 100 = 0
          /\ price >= 100
          /\ price = 100 * calculateActionPriceCeil(call.action, call.user,
                                                    pricing, call.contentQuality)

\* the outcome of checkPromotionSafety for the promotion of the call
Outcome(r) ==
  IF r.approvedPromotions # <<>> THEN r.approvedPromotions[1].check
  ELSE r.rejectedPromotions[1].check

\* C18: checkPromotionSafety evaluates quality, then frequency, then
\* diversity and stops at the first failing check; the promotion ends in
\* exactly one of approved and rejected, approved iff all three checks pass,
\* and the rejection reason is that of the first failing check
C18_ChecksInOrder ==
  \A r \in call.result :
    LET promotion == call.promotions[1]
        quality == checkContentQuality(call.ps, Field(promotion, "postId")).score
                     >= QualityThreshold
        frequency == checkFrequencyLimits(call.ps, promotion, call.targetUsers).passed
        diversity == checkPromotionDiversity(call.ps, promotion).passed
        o == Outcome(r)
    IN  /\ Len(r.approvedPromotions) + Len(r.rejectedPromotions) = 1
        /\ o.approved <=> (quality /\ frequency /\ diversity)
        /\ o.approved <=> o.rejectionReason = {}
        /\ ~quality =>
             /\ o.rejectionReason = {"content_quality_too_low"}
             /\ o.checks = <<"quality">>
        /\ (quality /\ ~frequency) =>
             /\ o.rejectionReason = {"frequency_limit_exceeded"}
             /\ o.checks = <<"quality", "frequency">>
        /\ (quality /\ frequency /\ ~diversity) =>
             /\ o.rejectionReason = {"diversity_requirements_not_met"}
             /\ o.checks = <<"quality", "frequency", "diversity">>
        /\ o.approved => o.checks = <<"quality", "frequency", "diversity">>

\* a promotion that fails the quality check and would fail the frequency
\* check too, rejected for its quality
C18_Witness ==
  \E r \in call.result :
    /\ ~checkFrequencyLimits(call.ps, call.promotions[1], call.targetUsers).passed
    /\ ~checkPromotionDiversity(call.ps, call.promotions[1]).passed
    /\ r.rejectedPromotions # <<>>
    /\ r.rejectedPromotions[1].check.rejectionReason = {"content_quality_too_low"}

\* C19: a promotion whose content quality score is below 40 is placed in
\* rejectedPromotions with reason content_quality_too_low, whatever the
\* target users and the delivery history are; so is the post of quality 35
C19_LowQualityRejected ==
  \A r \in call.result :
    LET promotion == call.promotions[1]
        score == checkContentQuality(call.ps, Field(promotion, "postId")).score
        scenarioD == /\ Field(promotion, "postId") = {"post1"}
                     /\ \E post \in call.ps.posts :
                          /\ post.engagement_score = 20 /\ post.text_length = 0
                          /\ post.author_avg_engagement = 50 /\ post.hours_ago = 1
    IN  /\ score < 40000 =>
             /\ r.approvedPromotions = <<>>
             /\ Len(r.rejectedPromotions) = 1
             /\ r.rejectedPromotions[1].promotion = promotion
             /\ r.rejectedPromotions[1].check.rejectionReason
                  = {"content_quality_too_low"}
        /\ scenarioD =>
             /\ score = 35000
             /\ r.approvedPromotions = <<>>
             /\ r.rejectedPromotions[1].check.rejectionReason
                  = {"content_quality_too_low"}

\* the post of quality 35 rejected although the frequency and diversity
\* checks would pass for the non-empty target list
C19_Witness ==
  \E r \in call.result :
    /\ checkContentQuality(call.ps, Field(call.promotions[1], "postId")).score = 35000
    /\ call.targetUsers # <<>>
    /\ checkFrequencyLimits(call.ps, call.promotions[1], call.targetUsers).passed
    /\ checkPromotionDiversity(call.ps, call.promotions[1]).passed
    /\ r.rejectedPromotions # <<>>
    /\ r.rejectedPromotions[1].check.rejectionReason = {"content_quality_too_low"}

\* C20: the frequency check samples the first min(n, 100) target users and
\* fails exactly when at least 20% of the sample have 3 or more deliveries in
\* the trailing 24h; a list of any length n >= 0 with fewer than 20% of the
\* sampled users at the cap passes
C20_FrequencyFailsFromTwentyPercent ==
  \A r \in call.result :
    LET sampled == Min(Len(call.targetUsers), FrequencySample)
        atCap == {i \in 1..sampled : call.ps.deliveries[i] >= DailyLimit}
        fails == sampled # 0 /\ Cardinality(atCap) * 5 >= sampled
        o == Outcome(r)
    IN  Len(o.checks) >= 2 =>
          (o.rejectionReason = {"frequency_limit_exceeded"} <=> fails)

\* C21: the diversity check fails exactly when the promotion's author has 2
\* or more deliveries in the trailing 24h or some content type has strictly
\* more than 60% of the trailing-24h deliveries; a share of exactly 60% and
\* an empty delivery history pass
C21_DiversityFailsAboveSixtyPercent ==
  \A r \in call.result :
    LET promotion == call.promotions[1]
        authorId == Field(promotion, "authorId")
        total == SumSeq(call.ps.typeStats)
        dominant == \E i \in 1..Len(call.ps.typeStats) :
                      call.ps.typeStats[i] * 5 > 3 * total
        frequent == \E a \in authorId : call.ps.authorDeliveries[a] >= AuthorLimit
        o == Outcome(r)
    IN  (authorId # {} /\ Len(o.checks) = 3) =>
          (o.rejectionReason = {"diversity_requirements_not_met"}
             <=> (frequent \/ dominant))

\* C22: for a ranked target list of length n, primaryTargets is the first
\* floor(0.7 n) targets and secondaryTargets the remaining ones: the two are
\* disjoint, their concatenation is the ranked list in order, and
\* totalReach = n
C22_SplitAtSeventyPercent ==
  \A r \in call.result :
    LET n == Len(call.targetUsers)
        cut == (7 * n) \div 10
        Range(q) == {q[i] : i \in 1..Len(q)}
    IN  call.op = "targetingPlan" =>
          /\ r.primaryTargets = SubSeq(call.targetUsers, 1, cut)
          /\ r.secondaryTargets = SubSeq(call.targetUsers, cut + 1, n)
          /\ r.primaryTargets \o r.secondaryTargets = call.targetUsers
          /\ Range(r.primaryTargets) \cap Range(r.secondaryTargets) = {}
          /\ r.totalReach = n

\* the target list of promotion pid: the ranked candidates of its framework
\* at the time of its creation
TargetsOf(pid) ==
  LET p == db.promotions[pid]
      content == getContentInfo(p.post_id)
  IN  IF content = {} THEN <<>>
      ELSE findTargetsWithinFramework(
             Users, CHOOSE c \in content : TRUE,
             [wealthLevels |-> p.target_wealth_levels,
              preferredRegions |-> p.preferred_regions],
             p.created_at)

\* C23: once createPromotion has returned for a promotion with target list
\* T, the queue holds exactly one entry per user of T for that promotion,
\* 'scheduled' (or 'cancelled' by an early stop) and with a non-null user,
\* and no entry for a user outside T
C23_OneQueueEntryPerTarget ==
  \A pid \in DOMAIN db.promotions :
    LET T == TargetsOf(pid)
        entries(u) == {q \in QueueOf(db, pid) : q.user_id = u}
    IN  Returned(pid) =>
          /\ \A i \in 1..Len(T) :
               /\ CountRows(db.promotion_queue, entries(T[i].user_id)) = 1
               /\ \A q \in entries(T[i].user_id) :
                    q.status \in {"scheduled", "cancelled"}
          /\ \A q \in QueueOf(db, pid) :
               \E i \in 1..Len(T) : T[i].user_id = q.user_id

\* C24: predictBudgetConsumption partitions the whole target list into
\* `duration` cohorts, so that every target is counted in exactly one day's
\* spend; dailySpend has `duration` entries, totalSpend is their sum,
\* remainingBudget = max(0, budget - totalSpend), and durationAdjustment is
\* present iff totalSpend > budget and is then
\* floor(duration x budget / totalSpend)
C24_CohortsCoverEveryTarget ==
  \A r \in call.result :
    LET pricing == calculateDynamicPricing(70, 12, "CN", FALSE)
        budget == call.budget * 1000000
        Concat[d \in 0..call.duration] ==
          IF d = 0 THEN <<>> ELSE Concat[d - 1] \o r.dayTargets[d]
    IN  call.op = "predictBudgetConsumption" =>
          /\ Len(r.dailySpend) = call.duration
          /\ Concat[call.duration] = call.targetUsers
          /\ r.totalSpend = SumSeq(r.dailySpend)
          /\ r.totalSpend = calculateDaySpend(call.targetUsers, pricing)
          /\ r.remainingBudget = Max(0, budget - r.totalSpend)
          /\ r.durationAdjustment # {} <=> r.totalSpend > budget
          /\ \A a \in r.durationAdjustment :
               a = (call.duration * budget) \div r.totalSpend

\* the rows an exhaustion run still holds of its snapshot
SnapshotRows(r) == {r.cur} \cup r.batch

\* C25: the exhaustion sweep stops a promotion early only if that promotion
\* is in the sweep's snapshot as 'active', unexpired and with summed expenses
\* >= 0.98 x budgetTotal: every snapshot taken holds only such promotions
\* (the rows of a run never grow afterwards), and a step sets a promotion
\* 'stopped_early' or cancels queue entries of it only as the current row of
\* an exhaustion run
C25_StopsOnlySnapshotRows ==
  [][ /\ \A r2 \in BagToSet(runs') :
           r2.kind = "exhaust" =>
             \/ \E r \in BagToSet(runs) :
                  r.kind = "exhaust" /\ SnapshotRows(r2) \subseteq SnapshotRows(r)
             \/ \A x \in SnapshotRows(r2) :
                  /\ x.id \in DOMAIN db.promotions
                  /\ db.promotions[x.id].status = "active"
                  /\ db.promotions[x.id].expires_at > now
                  /\ TotalSpent(db, x.id) * 100
                       >= db.promotions[x.id].budget_total * 98
      /\ \A pid \in DOMAIN db.promotions :
           ( \/ /\ db'.promotions[pid].status = "stopped_early"
                 /\ db.promotions[pid].status # "stopped_early"
              \/ CountRows(db'.promotion_queue,
                           {q \in QueueOf(db', pid) : q.status = "cancelled"})
                   # CountRows(db.promotion_queue,
                               {q \in QueueOf(db, pid) : q.status = "cancelled"}) )
           => \E r \in BagToSet(runs) :
                r.kind = "exhaust" /\ r.cur.id = pid ]_vars

\* a promotion stopped early at the threshold next to an active one below it
C25_Witness ==
  \E pid, other \in DOMAIN db.promotions :
    /\ db.promotions[pid].status = "stopped_early"
    /\ TotalSpent(db, pid) * 100 >= db.promotions[pid].budget_total * 98
    /\ db.promotions[other].status = "active"
    /\ TotalSpent(db, other) > 0
    /\ TotalSpent(db, other) * 100 < db.promotions[other].budget_total * 98

\* promotion pid has left 'active', has a refund task and none that is still
\* 'scheduled', and its author has been credited if budget was left unspent
Settled(pid) ==
  /\ db.promotions[pid].status # "active"
  /\ NumTasks(db, pid) >= 1
  /\ \A rt \in TasksOf(db, pid) : rt.status = "completed"
  /\ TotalSpent(db, pid) < db.promotions[pid].budget_total
       => NumRefundCredits(db, pid) >= 1

\* C26: under weakly fair sweeps and without store failure, every created
\* promotion (one whose createPromotion request has ended, with any refund
\* date it has within the reach of the clock) eventually leaves 'active',
\* its refund task eventually is 'completed', and unspent budget is
\* eventually credited to the author
C26_EveryPromotionSettles ==
  \A pid \in 1..MaxPromotions :
    ( /\ pid \in DOMAIN db.promotions
      /\ Returned(pid)
      /\ \A rt \in TasksOf(db, pid) : rt.refund_date <= MaxTime )
      ~> ( pid \in DOMAIN db.promotions /\ Settled(pid) )

\* C27: for any sequence of start() and stop() calls, each cadence has one
\* registered timer while the scheduler is running and none otherwise (a
\* second start() while running registers nothing), and no sweep is started
\* while the scheduler is stopped
C27_TimersFollowRunning ==
  [][ /\ \A c \in Cadences :
           scheduler'.timers[c] = IF scheduler'.isRunning THEN 1 ELSE 0
      /\ scheduler'.started # scheduler.started
           => (scheduler.isRunning \/ scheduler'.isRunning) ]_vars

\* C28: the stats-reset sweep sets daily_promotion_count to 0 for exactly the
\* users whose last_promotion_date is before today and leaves every other
\* counter and every other column unchanged; after two runs on the same day
\* the table is as after one
C28_ResetsExactlyStaleCounters ==
  (call.op = "resetDailyStats" /\ call.resets >= 1) =>
    \A u \in StatsUsers :
      LET old == call.before[u]
          new == call.stats[u]
          stale == old.last_promotion_date # {}
                     /\ \A d \in old.last_promotion_date : d * 24 + 24 <= call.hours
      IN  /\ new.daily_promotion_count
               = IF stale THEN 0 ELSE old.daily_promotion_count
          /\ new.weekly_promotion_count = old.weekly_promotion_count
          /\ new.last_promotion_date = old.last_promotion_date

\* two runs on day 2: the counter of a user last promoted on day 1 is reset,
\* that of a user last promoted on day 2 is kept
C28_Witness ==
  /\ call.op = "resetDailyStats" /\ call.resets = 2 /\ call.hours = 50
  /\ call.before["u1"] = [daily_promotion_count |-> 3, weekly_promotion_count |-> 5,
                          last_promotion_date |-> {1}]
  /\ call.before["u2"] = [daily_promotion_count |-> 3, weekly_promotion_count |-> 5,
                          last_promotion_date |-> {2}]
  /\ call.stats["u1"].daily_promotion_count = 0
  /\ call.stats["u2"].daily_promotion_count = 3

\* what the protector's queries read at the time of createPromotion: the
\* posts with their engagement score, and a promotion_deliveries table that
\* the delivery collaborator has not written yet
DeliveryView ==
  [posts |-> {[id |-> p.id,
               engagement_score |-> p.likes + p.replies * 2 + p.shares * 3,
               text_length |-> p.text_length, author_avg_engagement |-> 0,
               hours_ago |-> 1] : p \in Posts},
   deliveries |-> <<>>,
   authorDeliveries |-> [a \in {p.author_id : p \in Posts} |-> 0],
   typeStats |-> <<>>]

\* protectUserExperience([content], targetUsers) as initiateDelivery calls it
\* for promotion pid puts the content in rejectedPromotions
Rejected(pid) ==
  LET content == getContentInfo(db.promotions[pid].post_id)
  IN  /\ content # {}
      /\ protectUserExperience(DeliveryView, <<CHOOSE c \in content : TRUE>>,
                               TargetsOf(pid)).rejectedPromotions # <<>>

C30_FetchWithinLimitAndFilters ==
  \A items \in call.result :
    call.op = "fetch" =>
      /\ \A t \in call.body.total : Len(items) <= Min(Max(t, 0), 5)
      /\ \A i \in 1..Len(items) - 1 : items[i].priority >= items[i + 1].priority
      /\ \A i \in 1..Len(items) :
           /\ items[i].postId \notin call.body.seenPostIds
           /\ items[i].authorId \notin call.body.blockedAuthorIds
           /\ \E k \in 1..Len(call.rows) :
                /\ call.rows[k].id = items[i].postId
                /\ PromoSpent(call.rows[k]) < call.rows[k].promo_budget_coco

====
